---- MODULE Spec2Model ----
(***************************************************************************)
(* Model of k8s_installer.py: the orchestration in main(), the pipeline    *)
(* runner execute_remote_commands(), the outcome classes of                *)
(* run_remote_command(), key distribution copy_ssh_key_to_server() and the *)
(* join-command parser inside initialize_master_node().                    *)
(*                                                                         *)
(* One action is one stretch of main() that ends after a remote call (or a *)
(* key-distribution call) has returned and every local statement up to the *)
(* next remote call has run: exception propagation, list filtering, the    *)
(* abort checks and the final report are part of the action that triggers  *)
(* them.                                                                   *)
(***************************************************************************)
EXTENDS Integers, Sequences, FiniteSets, TLC

\* Largest number of worker nodes of a plan (get_user_inputs accepts any n >= 0).
MaxWorkers == 2
\* Largest number of stdout lines of the kubeadm init output.
MaxLines == 3

(***************************************************************************)
(* Hosts.  get_user_inputs() returns one master and n unique workers; the  *)
(* master is host 0 and worker i is host i, in input order.                *)
(***************************************************************************)
Master == 0

Hosts == 0..MaxWorkers

\* Python's None.
None == <<"None">>

SeqToSet(s) == {s[i] : i \in 1..Len(s)}

\* x in list
InList(x, s) == \E i \in 1..Len(s) : s[i] = x

(***************************************************************************)
(* run_remote_command: what one call can do, by the except clause (or the  *)
(* return) it ends in.                                                     *)
(*   ok       exit status 0, returns (output, error_output)                *)
(*   nonzero  exit status # 0, raises subprocess.CalledProcessError        *)
(*   auth     paramiko.AuthenticationException -> ConnectionError          *)
(*   ssh      paramiko.SSHException -> ConnectionError                     *)
(*   timeout  socket.timeout -> TimeoutError                               *)
(*   other    any other exception, re-raised as it is                      *)
(***************************************************************************)
Outcomes == {"ok", "nonzero", "auth", "ssh", "timeout", "other"}

\* The exception run_remote_command raises to its caller ("none": it returns).
Raised(outcome) ==
    CASE outcome = "ok" -> "none"
      [] outcome = "nonzero" -> "CalledProcessError"
      [] outcome = "auth" -> "ConnectionError"
      [] outcome = "ssh" -> "ConnectionError"
      [] outcome = "timeout" -> "TimeoutError"
      [] OTHER -> "Exception"

\* The three exception classes the callers name in their except clauses.
NamedErrors == {"CalledProcessError", "ConnectionError", "TimeoutError"}

\* Mutant: the join command gets the verbosity flag once more at every call.
Call_JoinReflagged(host, op, cmd, pty, timeout) ==
    [host |-> host, op |-> op, cmd |-> IF op = "join" THEN cmd \o <<"--v=5">> ELSE cmd,
     pty |-> pty, timeout |-> timeout]

\* One remote call as the channel sees it.
Call(host, op, cmd, pty, timeout) ==
    [host |-> host, op |-> op, cmd |-> cmd, pty |-> pty, timeout |-> timeout]

(***************************************************************************)
(* The provisioning stages of one node, in the order main() runs them.     *)
(* A command is its text; runner = TRUE when the list goes through         *)
(* execute_remote_commands, FALSE for install_base_packages, which calls   *)
(* run_remote_command itself with timeout=600.                             *)
(***************************************************************************)
ProvStages == <<
    [name |-> "Common Prerequisites", runner |-> TRUE, cmds |-> <<
        "sudo swapoff -a",
        "sudo sed -i swap /etc/fstab",
        "cat | sudo tee /etc/modules-load.d/k8s.conf",
        "sudo modprobe overlay",
        "sudo modprobe br_netfilter",
        "cat | sudo tee /etc/sysctl.d/k8s.conf",
        "sudo sysctl --system" >>],
    [name |-> "Base Packages", runner |-> FALSE, cmds |-> <<
        "sudo apt-get update -y",
        "sudo apt-get install -y apt-transport-https ca-certificates curl gnupg lsb-release" >>],
    [name |-> "Containerd Repo Setup", runner |-> TRUE, cmds |-> <<
        "sudo install -m 0755 -d /etc/apt/keyrings",
        "curl docker gpg | sudo gpg --dearmor -o /etc/apt/keyrings/docker.gpg",
        "sudo chmod a+r /etc/apt/keyrings/docker.gpg",
        "echo deb docker | sudo tee /etc/apt/sources.list.d/docker.list",
        "sudo apt-get update -y" >>],
    [name |-> "Containerd Install & Configure", runner |-> TRUE, cmds |-> <<
        "sudo apt-get install -y containerd.io",
        "sudo mkdir -p /etc/containerd",
        "sudo bash -c containerd config default",
        "sudo sed -i SystemdCgroup /etc/containerd/config.toml",
        "sudo systemctl restart containerd",
        "sudo systemctl enable containerd" >>],
    [name |-> "Kubernetes Repo Setup", runner |-> TRUE, cmds |-> <<
        "sudo apt-get update -y",
        "sudo install -m 0755 -d /etc/apt/keyrings",
        "curl k8s Release.key | sudo gpg --dearmor -o /etc/apt/keyrings/kubernetes-apt-keyring.gpg",
        "echo deb k8s | sudo tee /etc/apt/sources.list.d/kubernetes.list",
        "sudo apt-get update -y" >>],
    [name |-> "Kubernetes Components Install", runner |-> TRUE, cmds |-> <<
        "sudo apt-get install -y kubelet kubeadm kubectl",
        "sudo apt-mark hold kubelet kubeadm kubectl" >>] >>

\* The commands of initialize_master_node's kubeconfig setup.
KubeconfigCommands == <<
    "mkdir -p $HOME/.kube",
    "sudo cp -i /etc/kubernetes/admin.conf $HOME/.kube/config",
    "sudo chown $(id -u):$(id -g) $HOME/.kube/config" >>

\* "apt-get" in cmd or "apt " in cmd, for the commands above.
IsAptCommand(cmd) ==
    cmd \in { "sudo apt-get update -y",
              "sudo apt-get install -y apt-transport-https ca-certificates curl gnupg lsb-release",
              "sudo apt-get install -y containerd.io",
              "sudo apt-get install -y kubelet kubeadm kubectl" }

\* Mutant: every command of a list gets the default.
CmdTimeout_Default(cmd) == 300

\* cmd_timeout of execute_remote_commands.
CmdTimeout(cmd) == IF IsAptCommand(cmd) THEN 600 ELSE 300

(***************************************************************************)
(* The join-command parser of initialize_master_node.  A line of output is *)
(* the sequence of its whitespace-separated words; the continuation marker *)
(* is the word "\\" at the end of a line.  The substring tests of the code *)
(* are tests on the words.                                                 *)
(***************************************************************************)
JoinLine == <<"kubeadm", "join", "10.0.0.1:6443", "\\">>
TokenLine == <<"--token", "abcdef.0123456789abcdef", "\\">>
HashLine == <<"--discovery-token-ca-cert-hash", "sha256:1f2e">>
FlagLine == <<"--control-plane", "\\">>
TextLine == <<"[init]", "Using", "Kubernetes", "version">>
SudoJoinLine == <<"sudo", "kubeadm", "join", "10.0.0.1:6443", "\\">>
BareJoinLine == <<"kubeadm", "join", "10.0.0.1:6443">>
BareTokenLine == <<"--token", "abcdef.0123456789abcdef">>
JoinTokenLine == <<"kubeadm", "join", "10.0.0.1:6443", "--token",
                   "abcdef.0123456789abcdef", "\\">>
BlankLine == <<>>

\* The lines the init command's output is made of.
OutputLines == {JoinLine, TokenLine, HashLine, FlagLine, TextLine, SudoJoinLine,
                BareJoinLine, BareTokenLine, JoinTokenLine, BlankLine}

\* All outputs of at most n lines, as run_remote_command returns them: strip()
\* has removed the blank lines at both ends.
OutputsUpTo(n) ==
    {o \in UNION {[1..k -> OutputLines] : k \in 0..n} :
        o = <<>> \/ (o[1] # BlankLine /\ o[Len(o)] # BlankLine)}

\* "kubeadm join" in line
HasJoin(line) ==
    \E i \in 1..(Len(line) - 1) : line[i] = "kubeadm" /\ line[i + 1] = "join"

\* "--token" in line
HasToken(line) == \E i \in 1..Len(line) : line[i] = "--token"

\* "discovery-token-ca-cert-hash" in line
HasHash(line) == \E i \in 1..Len(line) : line[i] = "--discovery-token-ca-cert-hash"

\* line.strip().endswith('\\')
EndsWithBackslash(line) == Len(line) > 0 /\ line[Len(line)] = "\\"

\* line.strip().startswith("--")
StartsWithDashes(line) ==
    Len(line) > 0 /\ line[1] \in {"--token", "--discovery-token-ca-cert-hash",
                                  "--control-plane", "--v=5"}

\* line.strip().rstrip('\\').strip()
ProcessedLine(line) ==
    IF EndsWithBackslash(line) THEN SubSeq(line, 1, Len(line) - 1) ELSE line

\* any("discovery-token-ca-cert-hash" in l for l in join_command_lines)
AnyHash(buf) == \E k \in 1..Len(buf) : HasHash(buf[k])

\* Mutant: the next line is not looked at.
IsAnchor_JoinOnly(lines, i) == HasJoin(lines[i])

\* Mutant: a block opens at a line with the token option.
IsAnchor_TokenOnly(lines, i) == HasToken(lines[i])

\* The test that opens a join block at line i.
IsAnchor(lines, i) ==
    HasJoin(lines[i]) /\ (IF i + 1 <= Len(lines) THEN HasToken(lines[i + 1]) ELSE FALSE)

\* The heuristic end of a block: line i is no continuation line, something is
\* buffered, and the next line is a new join or no option.
LooksFinished(lines, i, buf) ==
    /\ ~EndsWithBackslash(lines[i])
    /\ Len(buf) > 1
    /\ i + 1 <= Len(lines)
    /\ (HasJoin(lines[i + 1]) \/ ~StartsWithDashes(lines[i + 1]))

\* The for loop over the lines, from line i on, with the loop's two variables;
\* the value is join_command_lines when the loop ends.
RECURSIVE ParseLoop(_, _, _, _)
ParseLoop(lines, i, buf, capture) ==
    IF i > Len(lines) THEN buf
    ELSE LET cap == capture \/ IsAnchor(lines, i)
             p == ProcessedLine(lines[i])
             buf1 == IF p # <<>> THEN Append(buf, p) ELSE buf
         IN IF ~cap THEN ParseLoop(lines, i + 1, buf, FALSE)
            ELSE IF HasHash(lines[i]) THEN buf1
            ELSE IF LooksFinished(lines, i, buf1)
                 THEN IF AnyHash(buf1) THEN buf1
                      ELSE ParseLoop(lines, i + 1, <<>>, FALSE)
                 ELSE ParseLoop(lines, i + 1, buf1, TRUE)

\* The same loop, with the line numbers of the lines in join_command_lines in
\* place of the lines: the value is the numbers of the lines the buffer holds
\* when the loop ends.
RECURSIVE ParseKept(_, _, _, _)
ParseKept(lines, i, kept, capture) ==
    IF i > Len(lines) THEN kept
    ELSE LET cap == capture \/ IsAnchor(lines, i)
             kept1 == IF ProcessedLine(lines[i]) # <<>> THEN Append(kept, i) ELSE kept
             buf1 == [k \in 1..Len(kept1) |-> ProcessedLine(lines[kept1[k]])]
         IN IF ~cap THEN ParseKept(lines, i + 1, kept, FALSE)
            ELSE IF HasHash(lines[i]) THEN kept1
            ELSE IF LooksFinished(lines, i, buf1)
                 THEN IF AnyHash(buf1) THEN kept1
                      ELSE ParseKept(lines, i + 1, <<>>, FALSE)
                 ELSE ParseKept(lines, i + 1, kept1, TRUE)

\* The same loop for every value join_command_lines takes on the way: the value
\* is the set of the buffers the loop has held, each as the numbers of its lines.
RECURSIVE ParseBuffers(_, _, _, _, _)
ParseBuffers(lines, i, kept, capture, seen) ==
    IF i > Len(lines) THEN seen
    ELSE LET cap == capture \/ IsAnchor(lines, i)
             kept1 == IF ProcessedLine(lines[i]) # <<>> THEN Append(kept, i) ELSE kept
             buf1 == [k \in 1..Len(kept1) |-> ProcessedLine(lines[kept1[k]])]
             seen1 == seen \cup {kept1}
         IN IF ~cap THEN ParseBuffers(lines, i + 1, kept, FALSE, seen)
            ELSE IF HasHash(lines[i]) THEN seen1
            ELSE IF LooksFinished(lines, i, buf1)
                 THEN IF AnyHash(buf1) THEN seen1
                      ELSE ParseBuffers(lines, i + 1, <<>>, FALSE, seen1)
                 ELSE ParseBuffers(lines, i + 1, kept1, TRUE, seen1)

\* The same loop once more, for the buffers it throws away: the value is the
\* set of the numbers of the lines that were in join_command_lines when it was
\* reset to [].
RECURSIVE ParseDiscarded(_, _, _, _, _)
ParseDiscarded(lines, i, kept, capture, gone) ==
    IF i > Len(lines) THEN gone
    ELSE LET cap == capture \/ IsAnchor(lines, i)
             kept1 == IF ProcessedLine(lines[i]) # <<>> THEN Append(kept, i) ELSE kept
             buf1 == [k \in 1..Len(kept1) |-> ProcessedLine(lines[kept1[k]])]
         IN IF ~cap THEN ParseDiscarded(lines, i + 1, kept, FALSE, gone)
            ELSE IF HasHash(lines[i]) THEN gone
            ELSE IF LooksFinished(lines, i, buf1)
                 THEN IF AnyHash(buf1) THEN gone
                      ELSE ParseDiscarded(lines, i + 1, <<>>, FALSE,
                                          gone \cup SeqToSet(kept1))
                 ELSE ParseDiscarded(lines, i + 1, kept1, TRUE, gone)

\* " ".join(join_command_lines)
RECURSIVE JoinWords(_)
JoinWords(buf) == IF buf = <<>> THEN <<>> ELSE Head(buf) \o JoinWords(Tail(buf))

\* join_command_full.strip().startswith("sudo")
StartsWithSudo(words) == Len(words) > 0 /\ words[1] = "sudo"

\* Mutant: the buffer is not checked for the CA-cert-hash option.
ParseJoinCommand_NoHashCheck(lines) ==
    LET buf == ParseLoop(lines, 1, <<>>, FALSE)
        full == JoinWords(buf)
    IN IF buf = <<>> THEN None
       ELSE (IF StartsWithSudo(full) THEN full ELSE <<"sudo">> \o full) \o <<"--v=5">>

\* The parse of raw_output: None, or join_command_full as its words.
ParseJoinCommand(lines) ==
    LET buf == ParseLoop(lines, 1, <<>>, FALSE)
        full == JoinWords(buf)
    IN IF buf = <<>> \/ ~AnyHash(buf) THEN None
       ELSE (IF StartsWithSudo(full) THEN full ELSE <<"sudo">> \o full) \o <<"--v=5">>

\* "kubeadm join" in join_command
IsJoinCommand(words) == words # None /\ HasJoin(words)

\* raw_output.splitlines() of initialize_master_node, from what the init command
\* did: its stdout when it exits 0, str(e.stdout) + "\n" + str(e.stderr) when it
\* exits non-zero.  An empty sequence is the empty string.
RawLines(outcome, out, err) ==
    IF outcome = "ok" THEN out
    ELSE (IF out = <<>> THEN << <<>> >> ELSE out) \o err

\* not raw_output
RawIsEmpty(outcome, out) == outcome = "ok" /\ out = <<>>

(***************************************************************************)
(* copy_ssh_key_to_server: its boolean result, from what the ssh-copy-id   *)
(* attempt and the Paramiko fallback meet.                                 *)
(*   sshcopy   "ok" | "notfound" (FileNotFoundError) | "failed"            *)
(*             (CalledProcessError) | "error" (any other exception of      *)
(*             run_local_command, which no except clause of the first try  *)
(*             block names)                                                *)
(*   connect   "ok" | "auth" | "ssh" | "other": ssh.connect with password  *)
(*   keyread   whether the public key file could be read                   *)
(*   exists    grep found the key in authorized_keys                       *)
(*   failAt    0, or the first of the four append commands to exit # 0     *)
(***************************************************************************)
SshCopyOutcomes == {"ok", "notfound", "failed", "error"}
ConnectOutcomes == {"ok", "auth", "ssh", "other"}
AppendCommands == <<"mkdir -p ~/.ssh", "echo key >> ~/.ssh/authorized_keys",
                    "chmod 700 ~/.ssh", "chmod 600 ~/.ssh/authorized_keys">>

CopySshKeyToServer(sshcopy, connect, keyread, exists, failAt) ==
    IF sshcopy = "ok" THEN TRUE
    ELSE IF connect # "ok" THEN FALSE
    ELSE IF ~keyread THEN FALSE
    ELSE IF exists THEN TRUE
    ELSE failAt = 0

\* The first try block of copy_ssh_key_to_server: an exception of
\* run_local_command other than FileNotFoundError and CalledProcessError leaves
\* the function, and main(), which calls it outside any try block.
CopyKeyRaises(sshcopy) == sshcopy = "error"

\* The fallback reaches the grep for the key: ssh-copy-id did not succeed, the
\* password login did and the public key file was read.
KeyChecked(sshcopy, connect, keyread) ==
    sshcopy \in {"notfound", "failed"} /\ connect = "ok" /\ keyread

\* key_exists: grep -qF finds the key in authorized_keys.
KeyExists(count) == count > 0

\* The position of the echo that appends the key in AppendCommands.
AppendAt == 2

\* Mutant: the key is appended without looking at key_exists.
StoreAfter_NoCheck(count, sshcopy, connect, keyread, failAt) ==
    IF sshcopy = "ok" THEN (IF count = 0 THEN 1 ELSE count)
    ELSE IF ~KeyChecked(sshcopy, connect, keyread) THEN count
    ELSE IF failAt = 0 \/ failAt > AppendAt THEN count + 1
    ELSE count

\* The number of copies of the key in the host's authorized_keys after a call
\* that found count copies.  ssh-copy-id installs a key only when it is not
\* installed yet; the fallback appends it when grep did not find it and the
\* commands up to the echo exited 0.
StoreAfter(count, sshcopy, connect, keyread, failAt) ==
    IF sshcopy = "ok" THEN (IF count = 0 THEN 1 ELSE count)
    ELSE IF ~KeyChecked(sshcopy, connect, keyread) THEN count
    ELSE IF KeyExists(count) THEN count
    ELSE IF failAt = 0 \/ failAt > AppendAt THEN count + 1
    ELSE count

(***************************************************************************)
(* execute_remote_commands: one iteration of its loop.  run is the record  *)
(* of the invocation so far, i the loop index (1-based, the i+1 of the     *)
(* "Failed command" message), outcome what run_remote_command did.         *)
(*   executed  the commands run so far, each with the exception it raised  *)
(*   failed    the index reported in the "Failed command" message, or 0    *)
(*   raise     the exception re-raised to the caller, or "none"            *)
(***************************************************************************)
NewRun(host, name, n) ==
    [host |-> host, name |-> name, n |-> n, executed |-> <<>>, failed |-> 0,
     raise |-> "none"]

\* Mutant: the except clause logs the failure but does not re-raise.
ExecuteStep_Swallow(run, i, outcome) ==
    [run EXCEPT !.executed = Append(@, [i |-> i, raised |-> Raised(outcome)]),
                !.failed = IF Raised(outcome) # "none" THEN i ELSE 0,
                !.raise = "none"]

ExecuteStep(run, i, outcome) ==
    [run EXCEPT !.executed = Append(@, [i |-> i, raised |-> Raised(outcome)]),
                !.failed = IF Raised(outcome) # "none" THEN i ELSE 0,
                !.raise = Raised(outcome)]

\* Mutant: the list is not filtered.
KeepIn_KeepAll(ips, keep) == ips

\* [ip for ip in ips if ip in keep]
KeepIn(ips, keep) == SelectSeq(ips, LAMBDA ip : InList(ip, keep))

\* Mutant: the list is not filtered.
KeepNotIn_KeepAll(ips, drop) == ips

\* [ip for ip in ips if ip not in drop]
KeepNotIn(ips, drop) == SelectSeq(ips, LAMBDA ip : ~InList(ip, drop))

(***************************************************************************)
(* run_remote_command, statement by statement.  A call is a record:        *)
(*   pc       "idle", "connect", "session", "recv_stdout", "recv_stderr",  *)
(*            "recv_exit", then "returned" or "raised"                     *)
(*   pty, timeout   the arguments of the call                              *)
(*   term     the terminal type of the get_pty request ("none": no request)*)
(*   open     the SSH connection of ssh_client is up                       *)
(*   opened   the connections this call has set up                         *)
(*   stalled  the remote side has stopped sending anything                 *)
(*   stdout, stderr, exit   what the three reads gave (exit -1: not read)  *)
(*   event    what made the call raise; at: the statement it happened in   *)
(*   raised   the exception that reaches the caller ("none": it returned)  *)
(*   value    the returned pair (output, error_output), None if it raised  *)
(***************************************************************************)
\* The timeout arguments the callers pass.
ChanTimeouts == {30, 60, 120, 300, 600, 900}

\* What the command may have written to a stream, decoded and stripped.
ChanOutputs == {<<>>, <<TextLine>>}

\* The exit statuses of a command.
ExitStatuses == {0, 1}

ChanIdle ==
    [pc |-> "idle", pty |-> FALSE, timeout |-> 300, term |-> "none", open |-> FALSE,
     opened |-> 0, stalled |-> FALSE, stdout |-> <<>>, stderr |-> <<>>, exit |-> -1,
     event |-> "none", at |-> "none", raised |-> "none", value |-> None]

\* A call that has just been entered.
ChanStart(pty, timeout) ==
    [ChanIdle EXCEPT !.pc = "connect", !.pty = pty, !.timeout = timeout]

\* What ssh_client.connect can meet: it succeeds, the key is refused
\* (AuthenticationException), the SSH protocol fails (SSHException), the
\* 20 s connect timeout passes (socket.timeout), the host name does not
\* resolve (socket.gaierror) or no route or listener is found (an OSError).
ConnectEvents == {"ok", "auth", "ssh", "timeout", "dns", "unreachable"}

\* open_session, settimeout, get_pty and exec_command: they succeed or the
\* server refuses the channel or the request (SSHException).
SessionEvents == {"ok", "ssh"}

\* Mutant: the non-zero exit status is not told from the other exceptions.
EventOutcome_NonzeroAsOther(event) ==
    IF event \in {"ok", "auth", "ssh", "timeout"} THEN event ELSE "other"

\* The except clause an event ends in, as one of Outcomes: the clauses name
\* AuthenticationException, SSHException and socket.timeout, the non-zero exit
\* is raised inside the try block, everything else meets "except Exception".
EventOutcome(event) ==
    IF event \in {"ok", "auth", "ssh", "timeout", "nonzero"} THEN event ELSE "other"

\* ssh_client.connect has set up the connection before it returns or raises.
TransportUp(event) == event \in {"ok", "auth", "ssh"}

\* Mutant: the client is closed on the normal return only.
Finally_OnReturnOnly(c) == IF c.pc = "returned" THEN [c EXCEPT !.open = FALSE] ELSE c

\* finally: if ssh_client: ssh_client.close()
Finally(c) == [c EXCEPT !.open = FALSE]

\* An except clause of run_remote_command, then the finally clause.
ChanRaise(c, event) ==
    Finally([c EXCEPT !.pc = "raised", !.at = c.pc, !.event = event,
                      !.raised = Raised(EventOutcome(event))])

\* return output, error_output, then the finally clause.
ChanReturn(c) ==
    Finally([c EXCEPT !.pc = "returned", !.value = <<c.stdout, c.stderr>>])

\* What channel.recv and channel.recv_stderr can do under channel.settimeout:
\* return what has arrived, or raise socket.timeout when nothing arrives in time.
RecvEvents(c) == IF c.stalled THEN {"timeout"} ELSE {"ok", "timeout"}

(***************************************************************************)
(* The state of main().                                                    *)
(***************************************************************************)
VARIABLES
    all_server_ips,                \* master_ips + worker_ips as entered
    master_ips,                    \* main's master_ips, filtered as it goes
    worker_ips,                    \* main's worker_ips, filtered as it goes
    successful_ssh_setup_servers,
    failed_nodes_prereqs,
    successful_workers,
    join_command,                  \* main's join_command
    join_command_full,             \* the parse result inside initialize_master_node
    pc,                            \* where main() stands
    idx,                           \* position of the running for loop (1-based)
    stage,                         \* provisioning stage of the current node
    step,                          \* command index inside the current list
    run,                           \* the latest execute_remote_commands invocation
    lastCalls,                     \* the remote calls the latest action made
    hostStage,                     \* per host: the stage main() has reported for it
    failureStage,                  \* per host: the phase main() reported it failed in
    attempted,                     \* <<host, operation>> pairs started so far
    cniStatus,                     \* "none", "ok" or "failed"
    initOutcome,                   \* what the init command did ("none" before it ran)
    joinOutcome,                   \* per host: what its join command did ("none": not run)
    abortMessage,                  \* the print_critical_error that ended the run
    raw_output,                    \* the lines handed to the join-command parser
    chan,                          \* the run_remote_command call under way
    keystore,                      \* one host's authorized_keys and the calls on it
    trouble,                       \* <<host, operation>> pairs that did not succeed
    scan,                          \* the join-command parser, line by line
    ssh_key,                       \* the local key pair at SSH_KEY_PATH
    inputs,                        \* get_user_inputs, prompt by prompt
    docker                         \* install_docker_ubuntu.py's main()

vars == <<all_server_ips, master_ips, worker_ips, successful_ssh_setup_servers,
          failed_nodes_prereqs, successful_workers, join_command, join_command_full,
          pc, idx, stage, step, run, lastCalls, hostStage, failureStage, attempted,
          cniStatus, initOutcome, joinOutcome, abortMessage, raw_output, chan,
          keystore, trouble, scan, ssh_key, inputs, docker>>

\* hostStage is "Candidate" until main() reports on the host, then "KeyCopied"
\* (key copy returned True), "SshVerified" (login test passed), "Provisioned"
\* ("Node base configuration finished successfully"), "RoleCompleted" (master
\* initialised, worker joined) or "Failed" (any "will be skipped" / "failed to
\* join" / critical error message); failureStage is then the phase of that
\* message: "SshSetup", "Provisioning", "ControlInit" or "Join".

NoRun == NewRun(Master, "none", 0)

\* The variables of the parts of the program that are looked at on their own.
sideVars == <<scan, ssh_key, inputs, docker>>

\* The parser before its loop:
\*   pc       "idle", "loop" (at the head of the for loop), "report" (the loop
\*            is over), "returned"
\*   i        the index of the for loop (1-based)
\*   buf      join_command_lines
\*   capture  capture_join_command
\*   visits   the values i has taken, in order
\*   looked   for each visit, the lines the iteration has read
\*   log      the lines printed by the "Full kubeadm init output" loop
\*   result   what the parse returned
NoScan ==
    [pc |-> "idle", i |-> 0, buf |-> <<>>, capture |-> FALSE, visits |-> <<>>,
     looked |-> <<>>, log |-> <<>>, result |-> None]

\* The key pair before generate_ssh_key has been called:
\*   key      the key pair in the file at SSH_KEY_PATH (0: there is no file)
\*   before   the key pair the latest call found
\*   made     the runs of ssh-keygen that wrote a key pair so far
\*   calls    the calls of generate_ssh_key so far
\*   result   how the latest call ended: "generated", "exists", "raised"
\*            ("none": no call yet)
\*   first    the key pair after the first call that returned (0: none has)
NoSshKey ==
    [key |-> 0, before |-> 0, made |-> 0, calls |-> 0, result |-> "none", first |-> 0]

\* get_user_inputs before its first prompt:
\*   pc        "idle"; the prompt it is at: "master", "count", "workers",
\*             "username", "same_password", "passwords"; "check"; then
\*             "returned" or "exited"
\*   num_workers, master_ips, worker_ips, use_same_password_input
\*             its variables of these names
\*   ssh_username      whether the user name has been given
\*   server_passwords  the keys of its dictionary of this name
\*   prompts   the prompts answered so far
\*   again     the latest answer was turned down and the prompt repeated
\*   dup       some answer named an address that was in the plan already
NoInputs ==
    [pc |-> "idle", num_workers |-> 0, master_ips |-> <<>>, worker_ips |-> <<>>,
     ssh_username |-> FALSE, use_same_password_input |-> "", server_passwords |-> {},
     prompts |-> 0, again |-> FALSE, dup |-> FALSE]

\* The Docker installer (install_docker_ubuntu.py) before main():
\*   pc        "idle", "root_check", "codename_check", "confirm", "install",
\*             then "finished" or "exited"
\*   euid      os.geteuid()
\*   os_release        the file /etc/os-release
\*   current_codename  what get_os_codename returned ("unread": not called)
\*   asked     the prompt was shown
\*   confirm   the variable of this name ("unset" before the prompt is answered)
\*   sudo_user the environment has SUDO_USER
\*   next      the position in the list of commands
\*   commands  the commands run so far
\*   status    the exit status (-1: still running)
NoDocker ==
    [pc |-> "idle", euid |-> 0, os_release |-> [exists |-> FALSE, lines |-> <<>>],
     current_codename |-> "unread", asked |-> FALSE, confirm |-> <<"unset">>,
     sudo_user |-> FALSE, next |-> 1, commands |-> <<>>, status |-> -1]

SideIdle ==
    /\ scan = NoScan
    /\ ssh_key = NoSshKey
    /\ inputs = NoInputs
    /\ docker = NoDocker

\* keystore before any call of copy_ssh_key_to_server on the host:
\*   count    the copies of the public key in authorized_keys
\*   before   the copies the latest call found
\*   calls    the calls made so far
\*   checked  the latest call ran the grep for the key
\*   result   what the latest call returned ("none": no call yet, "raised": it
\*            did not return)
NoKeyStore ==
    [count |-> 0, before |-> 0, calls |-> 0, checked |-> FALSE, result |-> "none",
     sshcopy |-> "none", connect |-> "none", keyread |-> FALSE, failAt |-> 0]

\* Mutant: all_server_ips is worker_ips + master_ips.
StartOfRun_WorkersFirst(n) ==
    /\ all_server_ips = [i \in 1..n |-> i] \o <<Master>>
    /\ master_ips = <<Master>>
    /\ worker_ips = [i \in 1..n |-> i]
    /\ successful_ssh_setup_servers = <<>>
    /\ failed_nodes_prereqs = <<>>
    /\ successful_workers = <<>>
    /\ join_command = None
    /\ join_command_full = None
    /\ idx = 1
    /\ stage = 1
    /\ step = 1
    /\ run = NoRun
    /\ lastCalls = <<>>
    /\ hostStage = [h \in Hosts |-> "Candidate"]
    /\ failureStage = [h \in Hosts |-> "None"]
    /\ attempted = {}
    /\ cniStatus = "none"
    /\ initOutcome = "none"
    /\ joinOutcome = [h \in Hosts |-> "none"]
    /\ abortMessage = "none"
    /\ trouble = {}

\* The variables of main() before its first step, for the plan get_user_inputs
\* returns: one master, n workers, all distinct.  The hosts are numbered in
\* the order of the plan: the master, then the workers as entered.
StartOfRun(n) ==
    /\ all_server_ips = <<Master>> \o [i \in 1..n |-> i]
    /\ master_ips = <<Master>>
    /\ worker_ips = [i \in 1..n |-> i]
    /\ successful_ssh_setup_servers = <<>>
    /\ failed_nodes_prereqs = <<>>
    /\ successful_workers = <<>>
    /\ join_command = None
    /\ join_command_full = None
    /\ idx = 1
    /\ stage = 1
    /\ step = 1
    /\ run = NoRun
    /\ lastCalls = <<>>
    /\ hostStage = [h \in Hosts |-> "Candidate"]
    /\ failureStage = [h \in Hosts |-> "None"]
    /\ attempted = {}
    /\ cniStatus = "none"
    /\ initOutcome = "none"
    /\ joinOutcome = [h \in Hosts |-> "none"]
    /\ abortMessage = "none"
    /\ trouble = {}

Init ==
    /\ \E n \in 0..MaxWorkers : StartOfRun(n)
    /\ pc = "ssh_copy"
    /\ raw_output = <<>>
    /\ chan = ChanIdle
    /\ keystore = NoKeyStore
    /\ SideIdle

\* Replace one host's entry of a per-host function.
SetHost(f, h, v) == [f EXCEPT ![h] = v]

\* trouble after operation op on host h, which did not succeed when bad holds.
Trouble(h, op, bad) == IF bad THEN trouble \cup {<<h, op>>} ELSE trouble

\* __main__: an exception that leaves main() is reported by print_critical_error.
UnhandledError == "A critical unhandled error occurred"

(***************************************************************************)
(* Phase 1 of main(): copy the key to every server, then test the          *)
(* passwordless login.                                                     *)
(***************************************************************************)

\* Mutant: worker_ips is not filtered after the SSH loop.
AfterSshLoop_KeepWorkers(ok, masters, workers) ==
    IF ok = <<>>
    THEN [pc |-> "aborted", msg |-> "SSH setup failed for all servers",
          masters |-> masters, workers |-> workers]
    ELSE LET m == KeepIn(masters, ok)
         IN IF m = <<>>
            THEN [pc |-> "aborted",
                  msg |-> "SSH setup failed for all designated master nodes",
                  masters |-> m, workers |-> workers]
            ELSE [pc |-> "provision", msg |-> "none", masters |-> m,
                  workers |-> workers]

\* What main() does once the loop over all_server_ips is over: the abort checks
\* and the filtering of master_ips and worker_ips.
AfterSshLoop(ok, masters, workers) ==
    IF ok = <<>>
    THEN [pc |-> "aborted", msg |-> "SSH setup failed for all servers",
          masters |-> masters, workers |-> workers]
    ELSE LET m == KeepIn(masters, ok)
             w == KeepIn(workers, ok)
         IN IF m = <<>>
            THEN [pc |-> "aborted",
                  msg |-> "SSH setup failed for all designated master nodes",
                  masters |-> m, workers |-> w]
            ELSE [pc |-> "provision", msg |-> "none", masters |-> m, workers |-> w]

\* The end of one iteration of the SSH loop: the next server, or the loop's exit.
SshAdvance(ok) ==
    IF idx < Len(all_server_ips)
    THEN /\ pc' = "ssh_copy"
         /\ idx' = idx + 1
         /\ UNCHANGED <<master_ips, worker_ips, abortMessage>>
    ELSE LET x == AfterSshLoop(ok, master_ips, worker_ips)
         IN /\ pc' = x.pc
            /\ idx' = 1
            /\ master_ips' = x.masters
            /\ worker_ips' = x.workers
            /\ abortMessage' = x.msg

\* if not copy_ssh_key_to_server(...): continue
CopyKey ==
    /\ pc = "ssh_copy"
    /\ \E sshcopy \in SshCopyOutcomes, connect \in ConnectOutcomes,
          keyread \in BOOLEAN, exists \in BOOLEAN,
          failAt \in 0..Len(AppendCommands) :
        LET server_ip == all_server_ips[idx]
            copied == CopySshKeyToServer(sshcopy, connect, keyread, exists, failAt)
        IN /\ attempted' = attempted \cup {<<server_ip, "key">>}
           /\ lastCalls' = <<Call(server_ip, "copy_ssh_key", "ssh-copy-id", FALSE, 20)>>
           /\ trouble' = Trouble(server_ip, "key", CopyKeyRaises(sshcopy) \/ ~copied)
           /\ IF CopyKeyRaises(sshcopy)
              THEN /\ pc' = "aborted"
                   /\ abortMessage' = UnhandledError
                   /\ UNCHANGED <<hostStage, failureStage, idx, master_ips, worker_ips>>
              ELSE IF copied
              THEN /\ hostStage' = SetHost(hostStage, server_ip, "KeyCopied")
                   /\ pc' = "ssh_test"
                   /\ UNCHANGED <<failureStage, idx, master_ips, worker_ips,
                                  abortMessage>>
              ELSE /\ hostStage' = SetHost(hostStage, server_ip, "Failed")
                   /\ failureStage' = SetHost(failureStage, server_ip, "SshSetup")
                   /\ SshAdvance(successful_ssh_setup_servers)
    /\ UNCHANGED <<raw_output, chan, keystore, sideVars, all_server_ips,
                   successful_ssh_setup_servers, failed_nodes_prereqs,
                   successful_workers, join_command, join_command_full, stage, step,
                   run, cniStatus, initOutcome, joinOutcome>>

\* Mutant: the server is appended whatever the test command did.
TestPassed_Always(outcome) == TRUE

\* The try block around the test command: only a call that returns appends
\* the server to successful_ssh_setup_servers.
TestPassed(outcome) == Raised(outcome) = "none"

TestSsh ==
    /\ pc = "ssh_test"
    /\ \E outcome \in Outcomes :
        LET server_ip == all_server_ips[idx]
            ok == IF TestPassed(outcome)
                  THEN Append(successful_ssh_setup_servers, server_ip)
                  ELSE successful_ssh_setup_servers
        IN /\ attempted' = attempted \cup {<<server_ip, "test">>}
           /\ trouble' = Trouble(server_ip, "test", outcome # "ok")
           /\ lastCalls' = <<Call(server_ip, "test", "echo 'Passwordless SSH successful.'",
                                  FALSE, 30)>>
           /\ successful_ssh_setup_servers' = ok
           /\ IF TestPassed(outcome)
              THEN /\ hostStage' = SetHost(hostStage, server_ip, "SshVerified")
                   /\ UNCHANGED failureStage
              ELSE /\ hostStage' = SetHost(hostStage, server_ip, "Failed")
                   /\ failureStage' = SetHost(failureStage, server_ip, "SshSetup")
           /\ SshAdvance(ok)
    /\ UNCHANGED <<raw_output, chan, keystore, sideVars,
                   all_server_ips, failed_nodes_prereqs, successful_workers,
                   join_command, join_command_full, stage, step, run, cniStatus,
                   initOutcome, joinOutcome>>

(***************************************************************************)
(* Phase 2 of main(): the base configuration of every node that passed     *)
(* the SSH setup, one remote command per step.                             *)
(***************************************************************************)

\* Mutant: main() goes from the base configuration straight to the network plugin.
AfterProvisionLoop_SkipInit(failed, masters, workers) ==
    LET m == KeepNotIn(masters, failed)
        w == KeepNotIn(workers, failed)
    IN IF m = <<>>
       THEN [pc |-> "aborted",
             msg |-> "Base configuration failed for all designated master nodes",
             masters |-> m, workers |-> w]
       ELSE [pc |-> "cni", msg |-> "none", masters |-> m, workers |-> w]

\* What main() does once the loop over current_all_server_ips is over.
AfterProvisionLoop(failed, masters, workers) ==
    LET m == KeepNotIn(masters, failed)
        w == KeepNotIn(workers, failed)
    IN IF m = <<>>
       THEN [pc |-> "aborted",
             msg |-> "Base configuration failed for all designated master nodes",
             masters |-> m, workers |-> w]
       ELSE [pc |-> "init", msg |-> "none", masters |-> m, workers |-> w]

\* Mutant: the loop over the nodes ends at the first node that failed.
ProvisionAdvance_StopOnFailure(failed) ==
    /\ stage' = 1
    /\ step' = 1
    /\ IF idx < Len(master_ips) + Len(worker_ips) /\ failed = <<>>
       THEN /\ pc' = "provision"
            /\ idx' = idx + 1
            /\ UNCHANGED <<master_ips, worker_ips, abortMessage>>
       ELSE LET x == AfterProvisionLoop(failed, master_ips, worker_ips)
            IN /\ pc' = x.pc
               /\ idx' = 1
               /\ master_ips' = x.masters
               /\ worker_ips' = x.workers
               /\ abortMessage' = x.msg

\* Mutant: the loop takes the same node again.
ProvisionAdvance_SameNode(failed) ==
    /\ stage' = 1
    /\ step' = 1
    /\ pc' = "provision"
    /\ UNCHANGED <<idx, master_ips, worker_ips, abortMessage>>

\* The next node of the loop, or the loop's exit.
ProvisionAdvance(failed) ==
    /\ stage' = 1
    /\ step' = 1
    /\ IF idx < Len(master_ips) + Len(worker_ips)
       THEN /\ pc' = "provision"
            /\ idx' = idx + 1
            /\ UNCHANGED <<master_ips, worker_ips, abortMessage>>
       ELSE LET x == AfterProvisionLoop(failed, master_ips, worker_ips)
            IN /\ pc' = x.pc
               /\ idx' = 1
               /\ master_ips' = x.masters
               /\ worker_ips' = x.workers
               /\ abortMessage' = x.msg

\* The except clauses of main() around a node's base configuration: every
\* exception of a step makes the node a failed node.
NodeFailed(raised) == raised # "none"

ProvisionStep ==
    /\ pc = "provision"
    /\ \E outcome \in Outcomes :
        LET server_ip == (master_ips \o worker_ips)[idx]
            st == ProvStages[stage]
            cmd == st.cmds[step]
            timeout == IF st.runner THEN CmdTimeout(cmd) ELSE 600
            r0 == IF step = 1 THEN NewRun(server_ip, st.name, Len(st.cmds)) ELSE run
            r1 == IF st.runner THEN ExecuteStep(r0, step, outcome) ELSE run
            raised == IF st.runner THEN r1.raise ELSE Raised(outcome)
        IN /\ attempted' = attempted \cup {<<server_ip, "provision">>}
           /\ trouble' = Trouble(server_ip, "provision", outcome # "ok")
           /\ lastCalls' = <<Call(server_ip, "provision", cmd, FALSE, timeout)>>
           /\ run' = r1
           /\ IF NodeFailed(raised)
              THEN /\ failed_nodes_prereqs' = Append(failed_nodes_prereqs, server_ip)
                   /\ hostStage' = SetHost(hostStage, server_ip, "Failed")
                   /\ failureStage' = SetHost(failureStage, server_ip, "Provisioning")
                   /\ ProvisionAdvance(Append(failed_nodes_prereqs, server_ip))
              ELSE IF step < Len(st.cmds)
              THEN /\ step' = step + 1
                   /\ UNCHANGED <<stage, pc, idx, master_ips, worker_ips, abortMessage,
                                  failed_nodes_prereqs, hostStage, failureStage>>
              ELSE IF stage < Len(ProvStages)
              THEN /\ stage' = stage + 1
                   /\ step' = 1
                   /\ UNCHANGED <<pc, idx, master_ips, worker_ips, abortMessage,
                                  failed_nodes_prereqs, hostStage, failureStage>>
              ELSE /\ hostStage' = SetHost(hostStage, server_ip, "Provisioned")
                   /\ UNCHANGED <<failed_nodes_prereqs, failureStage>>
                   /\ ProvisionAdvance(failed_nodes_prereqs)
    /\ UNCHANGED <<raw_output, chan, keystore, sideVars,
                   all_server_ips, successful_ssh_setup_servers, successful_workers,
                   join_command, join_command_full, cniStatus, initOutcome,
                   joinOutcome>>

(***************************************************************************)
(* Phase 3 of main(): initialize_master_node on master_ips[0].             *)
(***************************************************************************)
\* The stderr the init command may leave when it exits non-zero.
ErrOutputs == {<<>>, <<TextLine>>}

\* The except clauses around the init command: a non-zero exit keeps the
\* output for parsing, every other exception returns None at once.
InitOutputKept(outcome) == Raised(outcome) \in {"none", "CalledProcessError"}

\* initialize_master_node up to the end of the parse: None, or join_command_full.
InitParse(outcome, out, err) ==
    IF ~InitOutputKept(outcome) THEN None
    ELSE IF RawIsEmpty(outcome, out) THEN None
    ELSE ParseJoinCommand(RawLines(outcome, out, err))

\* Mutant: the result of initialize_master_node is not checked.
InitFailed_Never(parsed) == FALSE

\* "if not join_command" of main(), on what initialize_master_node returns.
InitFailed(parsed) == parsed = None

\* Mutant: the failure is reported with print_error, which does not exit.
AbortInit_PrintErrorOnly ==
    /\ pc' = "cni"
    /\ UNCHANGED <<abortMessage, hostStage, failureStage>>

\* main(): print_critical_error("Failed to initialize master node ...").
AbortInit ==
    /\ pc' = "aborted"
    /\ abortMessage' = "Failed to initialize master node or retrieve join command"
    /\ hostStage' = SetHost(hostStage, master_ips[1], "Failed")
    /\ failureStage' = SetHost(failureStage, master_ips[1], "ControlInit")

\* What initialize_master_node gives the parser, over all outputs of at most
\* MaxLines lines.
InitRawOutputs ==
    {RawLines(o, out, err) : o \in {"ok", "nonzero"}, out \in OutputsUpTo(MaxLines),
                             err \in ErrOutputs}

\* Everything the parse can return for an init command that exits 0, and for one
\* that exits non-zero, over all outputs of at most MaxLines lines.
InitResultsOk == {InitParse("ok", out, <<>>) : out \in OutputsUpTo(MaxLines)}
InitResultsNonzero ==
    {InitParse("nonzero", out, err) : out \in OutputsUpTo(MaxLines), err \in ErrOutputs}

InitResults(outcome) ==
    CASE outcome = "ok" -> InitResultsOk
      [] outcome = "nonzero" -> InitResultsNonzero
      [] OTHER -> {InitParse(outcome, <<>>, <<>>)}

InitCommand ==
    /\ pc = "init"
    /\ \E outcome \in Outcomes :
       \E parsed \in InitResults(outcome) :
           /\ attempted' = attempted \cup {<<master_ips[1], "init">>}
           /\ trouble' = Trouble(master_ips[1], "init", outcome # "ok")
           /\ lastCalls' = <<Call(master_ips[1], "init", "sudo kubeadm init", TRUE, 900)>>
           /\ initOutcome' = outcome
           /\ join_command_full' = parsed
           /\ IF InitFailed(parsed)
              THEN /\ AbortInit
                   /\ UNCHANGED step
              ELSE /\ pc' = "kubeconfig"
                   /\ step' = 1
                   /\ UNCHANGED <<abortMessage, hostStage, failureStage>>
    /\ UNCHANGED <<raw_output, chan, keystore, sideVars,
                   all_server_ips, master_ips, worker_ips, successful_ssh_setup_servers,
                   failed_nodes_prereqs, successful_workers, join_command, idx, stage,
                   run, cniStatus, joinOutcome>>

\* The kubeconfig commands, through execute_remote_commands; any exception makes
\* initialize_master_node return None.
KubeconfigStep ==
    /\ pc = "kubeconfig"
    /\ \E outcome \in Outcomes :
        LET cmd == KubeconfigCommands[step]
            r0 == IF step = 1
                  THEN NewRun(master_ips[1], "Setup Kubeconfig on Master",
                              Len(KubeconfigCommands))
                  ELSE run
            r1 == ExecuteStep(r0, step, outcome)
        IN /\ attempted' = attempted \cup {<<master_ips[1], "kubeconfig">>}
           /\ trouble' = Trouble(master_ips[1], "kubeconfig", outcome # "ok")
           /\ lastCalls' = <<Call(master_ips[1], "kubeconfig", cmd, FALSE, CmdTimeout(cmd))>>
           /\ run' = r1
           /\ IF r1.raise # "none"
              THEN /\ AbortInit
                   /\ UNCHANGED <<step, join_command>>
              ELSE IF step < Len(KubeconfigCommands)
              THEN /\ step' = step + 1
                   /\ UNCHANGED <<pc, abortMessage, hostStage, failureStage, join_command>>
              ELSE /\ join_command' = join_command_full
                   /\ pc' = "cni"
                   /\ step' = 1
                   /\ hostStage' = SetHost(hostStage, master_ips[1], "RoleCompleted")
                   /\ UNCHANGED <<abortMessage, failureStage>>
    /\ UNCHANGED <<raw_output, chan, keystore, sideVars,
                   all_server_ips, master_ips, worker_ips, successful_ssh_setup_servers,
                   failed_nodes_prereqs, successful_workers, join_command_full, idx,
                   stage, cniStatus, initOutcome, joinOutcome>>

(***************************************************************************)
(* Phase 4 of main(): install_cni_plugin.  Phase 5: the joins.             *)
(***************************************************************************)

\* Mutant: the join loop is skipped.
AfterCni_SkipJoin(workers, command) == "done"

\* Mutant: the run ends when the CNI step is over.
AfterCni_Abort(workers, command) == "aborted"

\* Where main() goes after the CNI step: the join loop when there is a worker
\* left and the join command passes the "kubeadm join" check, the report
\* otherwise.
AfterCni(workers, command) ==
    IF workers # <<>> /\ IsJoinCommand(command) THEN "join" ELSE "done"

\* install_cni_plugin's except clause: the exceptions after which it runs the two
\* debug commands before re-raising.
CniDebugAfter(raised) == raised \in NamedErrors

CniApply ==
    /\ pc = "cni"
    /\ \E outcome \in Outcomes :
        /\ attempted' = attempted \cup {<<master_ips[1], "cni">>}
        /\ lastCalls' = <<Call(master_ips[1], "cni", "kubectl apply -f calico.yaml",
                               FALSE, 120)>>
        /\ cniStatus' = IF Raised(outcome) = "none" THEN "ok" ELSE "failed"
        /\ pc' = IF CniDebugAfter(Raised(outcome)) THEN "cni_debug"
                 ELSE AfterCni(worker_ips, join_command)
    /\ idx' = 1
    /\ step' = 1
    /\ UNCHANGED <<raw_output, chan, keystore, sideVars, trouble,
                   all_server_ips, master_ips, worker_ips, successful_ssh_setup_servers,
                   failed_nodes_prereqs, successful_workers, join_command,
                   join_command_full, stage, run, hostStage, failureStage, initOutcome,
                   joinOutcome, abortMessage>>

\* "kubectl get nodes -o wide" and "kubectl get pods -A -o wide"; the first that
\* raises ends the debug block, and install_cni_plugin re-raises either way.
CniDebugCommands == <<[cmd |-> "kubectl get nodes -o wide", timeout |-> 60],
                      [cmd |-> "kubectl get pods -A -o wide", timeout |-> 120]>>

CniDebug ==
    /\ pc = "cni_debug"
    /\ \E outcome \in Outcomes :
        /\ lastCalls' = <<Call(master_ips[1], "cni_debug", CniDebugCommands[step].cmd,
                               FALSE, CniDebugCommands[step].timeout)>>
        /\ IF Raised(outcome) = "none" /\ step < Len(CniDebugCommands)
           THEN /\ step' = step + 1
                /\ UNCHANGED pc
           ELSE /\ step' = 1
                /\ pc' = AfterCni(worker_ips, join_command)
    /\ attempted' = attempted \cup {<<master_ips[1], "cni_debug">>}
    /\ UNCHANGED <<raw_output, chan, keystore, sideVars, trouble,
                   all_server_ips, master_ips, worker_ips, successful_ssh_setup_servers,
                   failed_nodes_prereqs, successful_workers, join_command,
                   join_command_full, idx, stage, run, hostStage, failureStage,
                   cniStatus, initOutcome, joinOutcome, abortMessage>>

\* Mutant: join_worker_node returns True whatever the call did.
JoinSucceeded_Always(outcome) == TRUE

\* Mutant: join_worker_node returns False whatever the call did.
JoinSucceeded_Never(outcome) == FALSE

\* join_worker_node's result for a valid join command: True only when the call
\* returns.
JoinSucceeded(outcome) == Raised(outcome) = "none"

JoinWorker ==
    /\ pc = "join"
    /\ \E outcome \in Outcomes :
        LET worker_ip == worker_ips[idx]
            joined == IsJoinCommand(join_command) /\ JoinSucceeded(outcome)
        IN /\ attempted' = attempted \cup {<<worker_ip, "join">>}
           /\ trouble' = Trouble(worker_ip, "join",
                                 ~IsJoinCommand(join_command) \/ outcome # "ok")
           /\ lastCalls' = IF IsJoinCommand(join_command)
                           THEN <<Call(worker_ip, "join", join_command, TRUE, 600)>>
                           ELSE <<>>
           /\ joinOutcome' = IF IsJoinCommand(join_command)
                             THEN SetHost(joinOutcome, worker_ip, outcome)
                             ELSE joinOutcome
           /\ IF joined
              THEN /\ successful_workers' = Append(successful_workers, worker_ip)
                   /\ hostStage' = SetHost(hostStage, worker_ip, "RoleCompleted")
                   /\ UNCHANGED failureStage
              ELSE /\ hostStage' = SetHost(hostStage, worker_ip, "Failed")
                   /\ failureStage' = SetHost(failureStage, worker_ip, "Join")
                   /\ UNCHANGED successful_workers
    /\ IF idx < Len(worker_ips)
       THEN /\ idx' = idx + 1
            /\ UNCHANGED pc
       ELSE /\ idx' = 1
            /\ pc' = "done"
    /\ UNCHANGED <<raw_output, chan, keystore, sideVars,
                   all_server_ips, master_ips, worker_ips, successful_ssh_setup_servers,
                   failed_nodes_prereqs, join_command, join_command_full, stage, step,
                   run, cniStatus, initOutcome, abortMessage>>

(***************************************************************************)
(* The report at the end of main(): the lists its four messages print.     *)
(***************************************************************************)
\* "Successfully joined worker nodes"
JoinedWorkers == SeqToSet(successful_workers)

\* Mutant: the workers left for the join are all listed as failed.
FailedJoinWorkers_All == SeqToSet(worker_ips)

\* "Worker nodes that failed to join": computed when worker_ips is longer than
\* successful_workers.
FailedJoinWorkers ==
    IF Len(worker_ips) > Len(successful_workers)
    THEN {worker_ips[i] : i \in {j \in 1..Len(worker_ips) :
                                    ~InList(worker_ips[j], successful_workers)}}
    ELSE {}

\* "Nodes that failed during prerequisite/base setup and were skipped"
PrereqFailedNodes == SeqToSet(failed_nodes_prereqs)

\* "Nodes skipped due to SSH key copy or test failure": the keys of
\* server_passwords, which are the servers as entered, that are not in
\* successful_ssh_setup_servers.
SkippedSshNodes ==
    {all_server_ips[i] : i \in {j \in 1..Len(all_server_ips) :
                                   ~InList(all_server_ips[j], successful_ssh_setup_servers)}}

Next ==
    \/ CopyKey
    \/ TestSsh
    \/ ProvisionStep
    \/ InitCommand
    \/ KubeconfigStep
    \/ CniApply
    \/ CniDebug
    \/ JoinWorker

Spec == Init /\ [][Next]_vars

(***************************************************************************)
(* main() with calls that do not come back.  Every phase of main() stands  *)
(* at a remote call; channel.recv_exit_status() (run_remote_command, and   *)
(* the key copy's fallback) waits for the command's exit status without a  *)
(* timeout, and main() waits with it.                                      *)
(***************************************************************************)
\* The places of main() at which the run is over.
RunEnded == {"done", "aborted"}

\* The call main() stands at never gets an exit status.
CallBlocks ==
    /\ pc \notin RunEnded \cup {"blocked"}
    /\ pc' = "blocked"
    /\ UNCHANGED <<all_server_ips, master_ips, worker_ips, successful_ssh_setup_servers,
                   failed_nodes_prereqs, successful_workers, join_command,
                   join_command_full, idx, stage, step, run, lastCalls, hostStage,
                   failureStage, attempted, cniStatus, initOutcome, joinOutcome,
                   abortMessage, raw_output, chan, keystore, trouble, sideVars>>

LiveNext ==
    \/ Next
    \/ CallBlocks

\* The interpreter goes on with main() as long as main() has a step to take.
SpecLive == Init /\ [][LiveNext]_vars /\ WF_vars(LiveNext)

(***************************************************************************)
(* run_remote_command on its own: one call after the other, each taken     *)
(* through its statements.                                                 *)
(***************************************************************************)
mainVars == <<all_server_ips, master_ips, worker_ips, successful_ssh_setup_servers,
              failed_nodes_prereqs, successful_workers, join_command,
              join_command_full, pc, idx, stage, step, run, lastCalls, hostStage,
              failureStage, attempted, cniStatus, initOutcome, joinOutcome,
              abortMessage, trouble>>

ChanInit ==
    /\ StartOfRun(0)
    /\ pc = "call"
    /\ raw_output = <<>>
    /\ chan = ChanIdle
    /\ keystore = NoKeyStore
    /\ SideIdle

\* A caller enters run_remote_command; no call is under way.
ChanInvoke ==
    /\ chan.pc \in {"idle", "returned", "raised"}
    /\ \E pty \in BOOLEAN, timeout \in ChanTimeouts : chan' = ChanStart(pty, timeout)
    /\ UNCHANGED <<mainVars, raw_output, keystore, sideVars>>

\* ssh_client.connect(...)
ChanConnect ==
    /\ chan.pc = "connect"
    /\ \E event \in ConnectEvents :
        LET c1 == [chan EXCEPT !.open = TransportUp(event),
                               !.opened = IF TransportUp(event) THEN @ + 1 ELSE @]
        IN chan' = IF event = "ok" THEN [c1 EXCEPT !.pc = "session"]
                   ELSE ChanRaise(c1, event)
    /\ UNCHANGED <<mainVars, raw_output, keystore, sideVars>>

\* open_session(), settimeout(timeout), get_pty(term=...), exec_command(command)
ChanOpenSession ==
    /\ chan.pc = "session"
    /\ \E event \in SessionEvents :
        chan' = IF event = "ok"
                THEN [chan EXCEPT !.pc = "recv_stdout",
                                  !.term = IF chan.pty THEN "vt100" ELSE ""]
                ELSE ChanRaise(chan, event)
    /\ UNCHANGED <<mainVars, raw_output, keystore, sideVars>>

\* output = channel.recv(...)
ChanRecvStdout ==
    /\ chan.pc = "recv_stdout"
    /\ \E event \in RecvEvents(chan), out \in ChanOutputs :
        chan' = IF event = "ok"
                THEN [chan EXCEPT !.pc = "recv_stderr", !.stdout = out]
                ELSE ChanRaise(chan, event)
    /\ UNCHANGED <<mainVars, raw_output, keystore, sideVars>>

\* error_output = channel.recv_stderr(...)
ChanRecvStderr ==
    /\ chan.pc = "recv_stderr"
    /\ \E event \in RecvEvents(chan), out \in ChanOutputs :
        chan' = IF event = "ok"
                THEN [chan EXCEPT !.pc = "recv_exit", !.stderr = out]
                ELSE ChanRaise(chan, event)
    /\ UNCHANGED <<mainVars, raw_output, keystore, sideVars>>

\* exit_status = channel.recv_exit_status(), which waits for the status without
\* a timeout, then the check of the status and the return.
ChanRecvExitStatus ==
    /\ chan.pc = "recv_exit"
    /\ ~chan.stalled
    /\ \E status \in ExitStatuses :
        LET c1 == [chan EXCEPT !.exit = status]
        IN chan' = IF status # 0 THEN ChanRaise(c1, "nonzero") ELSE ChanReturn(c1)
    /\ UNCHANGED <<mainVars, raw_output, keystore, sideVars>>

\* The remote side stops sending while the call reads from the channel.
RemoteStalls ==
    /\ chan.pc \in {"recv_stdout", "recv_stderr", "recv_exit"}
    /\ ~chan.stalled
    /\ chan' = [chan EXCEPT !.stalled = TRUE]
    /\ UNCHANGED <<mainVars, raw_output, keystore, sideVars>>

\* The statements of run_remote_command.
ChanStep ==
    \/ ChanConnect
    \/ ChanOpenSession
    \/ ChanRecvStdout
    \/ ChanRecvStderr
    \/ ChanRecvExitStatus

ChanNext ==
    \/ ChanInvoke
    \/ ChanStep
    \/ RemoteStalls

ChannelSpec == ChanInit /\ [][ChanNext]_vars

\* The interpreter runs the statement a call stands at.
ChannelLive == ChannelSpec /\ WF_vars(ChanStep)

(***************************************************************************)
(* The join-command parser on its own, over the outputs the init command   *)
(* can leave.                                                              *)
(***************************************************************************)
\* Largest number of lines of the longer outputs given to the parser.
ParserMaxLines == 6

\* The lines the longer outputs are made of.
LongLines == {JoinLine, TokenLine, BareTokenLine, HashLine, TextLine}

\* The longer outputs.
LongOutputs == UNION {[1..k -> LongLines] : k \in (MaxLines + 1)..ParserMaxLines}

\* A candidate block the parser gives up: a join line and a token option that
\* is not continued.
AbandonedCandidate == <<JoinLine, BareTokenLine>>

\* raw_output.splitlines() for every output of at most MaxLines lines, exit
\* status zero or not, for the longer outputs, and for the longer outputs
\* after an abandoned candidate.
ParserInputs ==
    InitRawOutputs
        \cup LongOutputs
        \cup {AbandonedCandidate \o out : out \in LongOutputs}

ParserInit ==
    /\ StartOfRun(0)
    /\ pc = "parse"
    /\ raw_output \in ParserInputs
    /\ chan = ChanIdle
    /\ keystore = NoKeyStore
    /\ SideIdle

\* The parse of initialize_master_node: from lines = raw_output.splitlines() to
\* the return of None or the finished join_command_full.
ParseOutput ==
    /\ pc = "parse"
    /\ pc' = "parsed"
    /\ join_command_full' = ParseJoinCommand(raw_output)
    /\ UNCHANGED <<all_server_ips, master_ips, worker_ips, successful_ssh_setup_servers,
                   failed_nodes_prereqs, successful_workers, join_command, idx, stage,
                   step, run, lastCalls, hostStage, failureStage, attempted, cniStatus,
                   initOutcome, joinOutcome, abortMessage, raw_output, chan,
                   keystore, trouble, sideVars>>

ParserSpec == ParserInit /\ [][ParseOutput]_vars

(***************************************************************************)
(* The join-command parser iteration by iteration: the for loop of         *)
(* initialize_master_node over lines = raw_output.splitlines(), then the   *)
(* check of the buffer and the return.                                     *)
(***************************************************************************)
\* The lines the scanned outputs are made of.
ScanLines == {JoinLine, BareTokenLine, HashLine, TextLine}

\* The outputs given to the loop: initialize_master_node returns before the
\* parse when raw_output is empty.
ScanInputs == UNION {[1..k -> ScanLines] : k \in 1..ParserMaxLines}

\* The lines iteration i reads: line i itself; line i+1 in the anchor test,
\* when line i holds the join keyword and is not the last; line i+1 in the
\* end-of-block test, when the iteration gets that far.
LookedAt(lines, i, cap, buf1) ==
    {i} \cup (IF i + 1 <= Len(lines)
                  /\ \/ HasJoin(lines[i])
                     \/ /\ cap
                        /\ ~HasHash(lines[i])
                        /\ ~EndsWithBackslash(lines[i])
                        /\ Len(buf1) > 1
              THEN {i + 1} ELSE {})

\* Mutant: after a reset the loop starts again at the first line.
ScanAfterReset_Rescan(i) == 1

\* Where the for loop goes after the buffer was reset: enumerate() hands it the
\* next line.
ScanAfterReset(i) == i + 1

\* Mutant: nothing is printed.
FailureLog_None(lines) == <<>>

\* for line_num, text_line in enumerate(raw_output.splitlines()):
\*     print_warning(f"  Line {line_num}: {text_line}")
FailureLog(lines) == [k \in 1..Len(lines) |-> [num |-> k - 1, text |-> lines[k]]]

ScanInit ==
    /\ StartOfRun(0)
    /\ pc = "scan"
    /\ raw_output \in ScanInputs
    /\ chan = ChanIdle
    /\ keystore = NoKeyStore
    /\ scan = [NoScan EXCEPT !.pc = "loop", !.i = 1]
    /\ ssh_key = NoSshKey
    /\ inputs = NoInputs
    /\ docker = NoDocker

\* One iteration of the for loop.
ScanLine ==
    /\ scan.pc = "loop"
    /\ scan.i <= Len(raw_output)
    /\ LET lines == raw_output
           i == scan.i
           cap == scan.capture \/ IsAnchor(lines, i)
           p == ProcessedLine(lines[i])
           buf1 == IF p # <<>> THEN Append(scan.buf, p) ELSE scan.buf
           seen == [scan EXCEPT !.visits = Append(@, i),
                                !.looked = Append(@, LookedAt(lines, i, cap, buf1))]
       IN scan' =
            IF ~cap THEN [seen EXCEPT !.i = i + 1, !.capture = FALSE]
            ELSE IF HasHash(lines[i])
                 THEN [seen EXCEPT !.pc = "report", !.buf = buf1, !.capture = TRUE]
            ELSE IF LooksFinished(lines, i, buf1)
                 THEN IF AnyHash(buf1)
                      THEN [seen EXCEPT !.pc = "report", !.buf = buf1, !.capture = TRUE]
                      ELSE [seen EXCEPT !.i = ScanAfterReset(i), !.buf = <<>>,
                                        !.capture = FALSE]
                 ELSE [seen EXCEPT !.i = i + 1, !.buf = buf1, !.capture = TRUE]
    /\ UNCHANGED <<mainVars, raw_output, chan, keystore, ssh_key, inputs, docker>>

\* enumerate() is exhausted.
ScanLoopEnds ==
    /\ scan.pc = "loop"
    /\ scan.i > Len(raw_output)
    /\ scan' = [scan EXCEPT !.pc = "report"]
    /\ UNCHANGED <<mainVars, raw_output, chan, keystore, ssh_key, inputs, docker>>

\* After the loop: the buffer without the CA-cert-hash option is a failure, the
\* whole output is printed and None returned; otherwise the command is built.
ScanReport ==
    /\ scan.pc = "report"
    /\ LET full == JoinWords(scan.buf)
       IN scan' =
            IF scan.buf = <<>> \/ ~AnyHash(scan.buf)
            THEN [scan EXCEPT !.pc = "returned", !.log = FailureLog(raw_output),
                              !.result = None]
            ELSE [scan EXCEPT !.pc = "returned",
                              !.result = (IF StartsWithSudo(full) THEN full
                                          ELSE <<"sudo">> \o full) \o <<"--v=5">>]
    /\ UNCHANGED <<mainVars, raw_output, chan, keystore, ssh_key, inputs, docker>>

ScanNext ==
    \/ ScanLine
    \/ ScanLoopEnds
    \/ ScanReport

ScanSpec == ScanInit /\ [][ScanNext]_vars

\* The interpreter runs the statement the parse stands at.
ScanLive == ScanSpec /\ WF_vars(ScanNext)

(***************************************************************************)
(* get_user_inputs prompt by prompt.  A line the user types is a sequence  *)
(* of characters.                                                          *)
(***************************************************************************)
\* Largest number of prompts answered in one run of get_user_inputs.
MaxPrompts == 9

\* Largest number of worker nodes the user asks for.
MaxInputWorkers == 2

Digits == {"0", "1", "2", "3", "4", "5", "6", "7", "8", "9"}

\* int() of one digit.
DigitValue(c) ==
    CASE c = "0" -> 0 [] c = "1" -> 1 [] c = "2" -> 2 [] c = "3" -> 3 [] c = "4" -> 4
      [] c = "5" -> 5 [] c = "6" -> 6 [] c = "7" -> 7 [] c = "8" -> 8 [] c = "9" -> 9

\* The lines the user types at an address prompt: nothing, 10.0.0.1, the same
\* with a zero before the last number, the same followed by a blank, 10.0.0.2,
\* a number above 255, three numbers only, and a name.
InputTexts ==
    { <<>>,
      <<"1", "0", ".", "0", ".", "0", ".", "1">>,
      <<"1", "0", ".", "0", ".", "0", ".", "0", "1">>,
      <<"1", "0", ".", "0", ".", "0", ".", "1", " ">>,
      <<"1", "0", ".", "0", ".", "0", ".", "2">>,
      <<"1", "0", ".", "0", ".", "0", ".", "2", "5", "6">>,
      <<"1", "0", ".", "0", ".", "1">>,
      <<"n", "1">> }

\* str.strip()
RECURSIVE Strip(_)
Strip(t) ==
    IF t = <<>> THEN t
    ELSE IF Head(t) = " " THEN Strip(Tail(t))
    ELSE IF t[Len(t)] = " " THEN Strip(SubSeq(t, 1, Len(t) - 1))
    ELSE t

\* str.split('.'): the parts between the dots; one empty part for the empty line.
RECURSIVE SplitDots(_, _)
SplitDots(t, part) ==
    IF t = <<>> THEN <<part>>
    ELSE IF Head(t) = "." THEN <<part>> \o SplitDots(Tail(t), <<>>)
    ELSE SplitDots(Tail(t), Append(part, Head(t)))

\* str.isdigit(): not empty and digits only.
IsDigit(part) == part # <<>> /\ \A k \in 1..Len(part) : part[k] \in Digits

\* int(part) of a part that is digits only.
RECURSIVE IntOf(_)
IntOf(part) ==
    IF part = <<>> THEN 0
    ELSE 10 * IntOf(SubSeq(part, 1, Len(part) - 1)) + DigitValue(part[Len(part)])

\* The test of l.540 and l.567: four parts, each a number from 0 to 255.
LooksLikeIPv4(ip) ==
    LET parts == SplitDots(ip, <<>>)
    IN /\ Len(parts) = 4
       /\ \A k \in 1..4 : IsDigit(parts[k]) /\ 0 <= IntOf(parts[k]) /\ IntOf(parts[k]) <= 255

\* The four numbers of an entry that passed the test, as the test reads them.
AddressOf(ip) == [k \in 1..4 |-> IntOf(SplitDots(ip, <<>>)[k])]

\* ip in master_ips or ip in worker_ips: equality of the lines as typed.
AlreadyEntered(ip, masters, workers) ==
    \/ \E k \in 1..Len(masters) : masters[k] = ip
    \/ \E k \in 1..Len(workers) : workers[k] = ip

\* The entry names an address that an entry of the plan names.
NamesPlannedAddress(ip, all_ips) ==
    /\ LooksLikeIPv4(ip)
    /\ \E k \in 1..Len(all_ips) : AddressOf(all_ips[k]) = AddressOf(ip)

\* What int(num_workers_str) makes of the answer: a number, or ValueError.
NumWorkersAnswers ==
    {[parsed |-> TRUE, n |-> k] : k \in (0 - 1)..MaxInputWorkers}
        \cup {[parsed |-> FALSE, n |-> 0]}

\* The answers to the yes/no prompt after strip() and lower().
YesNoAnswers == {"yes", "no", "maybe"}

\* master_ips + worker_ips
AllIps == inputs.master_ips \o inputs.worker_ips

InputInit ==
    /\ StartOfRun(0)
    /\ pc = "inputs"
    /\ raw_output = <<>>
    /\ chan = ChanIdle
    /\ keystore = NoKeyStore
    /\ scan = NoScan
    /\ ssh_key = NoSshKey
    /\ inputs = [NoInputs EXCEPT !.pc = "master"]
    /\ docker = NoDocker

\* What every prompt leaves alone.
InputFrame == UNCHANGED <<mainVars, raw_output, chan, keystore, scan, ssh_key, docker>>

\* The prompt was answered; turned says whether it is repeated.
Answered(turned) == [inputs EXCEPT !.prompts = @ + 1, !.again = turned]

\* The prompt for the master's address (l.533-543).
AskMaster ==
    /\ inputs.pc = "master"
    /\ inputs.prompts < MaxPrompts
    /\ \E text \in InputTexts :
        LET ip == Strip(text)
        IN inputs' =
             IF ip = <<>> THEN Answered(TRUE)
             ELSE IF LooksLikeIPv4(ip)
             THEN [Answered(FALSE) EXCEPT !.master_ips = Append(@, ip), !.pc = "count"]
             ELSE Answered(TRUE)
    /\ InputFrame

\* The prompt for the number of workers (l.545-554).
AskNumWorkers ==
    /\ inputs.pc = "count"
    /\ inputs.prompts < MaxPrompts
    /\ \E answer \in NumWorkersAnswers :
        inputs' =
          IF answer.parsed /\ answer.n >= 0
          THEN [Answered(FALSE) EXCEPT !.num_workers = answer.n,
                                       !.pc = IF answer.n = 0 THEN "username" ELSE "workers"]
          ELSE Answered(TRUE)
    /\ InputFrame

\* The prompt for one worker's address (l.557-571).
AskWorker ==
    /\ inputs.pc = "workers"
    /\ inputs.prompts < MaxPrompts
    /\ \E text \in InputTexts :
        LET ip == Strip(text)
            named == inputs.dup \/ NamesPlannedAddress(ip, AllIps)
        IN inputs' =
             IF ip = <<>> THEN Answered(TRUE)
             ELSE IF AlreadyEntered(ip, inputs.master_ips, inputs.worker_ips)
             THEN [Answered(TRUE) EXCEPT !.dup = named]
             ELSE IF LooksLikeIPv4(ip)
             THEN [Answered(FALSE) EXCEPT
                     !.worker_ips = Append(@, ip),
                     !.dup = named,
                     !.pc = IF Len(inputs.worker_ips) + 1 = inputs.num_workers
                            THEN "username" ELSE "workers"]
             ELSE Answered(TRUE)
    /\ InputFrame

\* The prompt for the user name, and the test that there is an address (l.573-583).
AskUsername ==
    /\ inputs.pc = "username"
    /\ inputs.prompts < MaxPrompts
    /\ \E given \in BOOLEAN :
        inputs' =
          IF ~given THEN Answered(TRUE)
          ELSE [Answered(FALSE) EXCEPT
                  !.ssh_username = TRUE,
                  !.pc = IF AllIps = <<>> THEN "exited" ELSE "same_password"]
    /\ InputFrame

\* The yes/no prompt (l.585-589).
AskSamePassword ==
    /\ inputs.pc = "same_password"
    /\ inputs.prompts < MaxPrompts
    /\ \E answer \in YesNoAnswers :
        inputs' =
          IF answer \in {"yes", "no"}
          THEN [Answered(FALSE) EXCEPT !.use_same_password_input = answer, !.pc = "passwords"]
          ELSE Answered(TRUE)
    /\ InputFrame

\* One password prompt: one password for all servers, or one server's (l.591-604).
AskPassword ==
    /\ inputs.pc = "passwords"
    /\ inputs.prompts < MaxPrompts
    /\ \E given \in BOOLEAN :
        LET all_ips == AllIps
            todo == {k \in 1..Len(all_ips) : all_ips[k] \notin inputs.server_passwords}
            this == CHOOSE k \in todo : \A m \in todo : k <= m
            keys == IF inputs.use_same_password_input = "yes"
                    THEN {all_ips[k] : k \in 1..Len(all_ips)}
                    ELSE inputs.server_passwords \cup {all_ips[this]}
        IN inputs' =
             IF ~given THEN Answered(TRUE)
             ELSE [Answered(FALSE) EXCEPT
                     !.server_passwords = keys,
                     !.pc = IF keys = {all_ips[k] : k \in 1..Len(all_ips)}
                            THEN "check" ELSE "passwords"]
    /\ InputFrame

\* The last test and the return (l.606-610).
CheckDuplicates ==
    /\ inputs.pc = "check"
    /\ LET all_ips == AllIps
       IN inputs' =
            [inputs EXCEPT
               !.pc = IF Len(all_ips) # Cardinality({all_ips[k] : k \in 1..Len(all_ips)})
                      THEN "exited" ELSE "returned"]
    /\ InputFrame

InputNext ==
    \/ AskMaster
    \/ AskNumWorkers
    \/ AskWorker
    \/ AskUsername
    \/ AskSamePassword
    \/ AskPassword
    \/ CheckDuplicates

InputSpec == InputInit /\ [][InputNext]_vars

(***************************************************************************)
(* install_docker_ubuntu.py: main() from its pre-flight checks to its last *)
(* command.                                                                *)
(***************************************************************************)
\* TARGET_OS_CODENAME
TARGET_OS_CODENAME == "noble"

\* The effective user ids the installer is started with: root and a user.
Euids == {0, 1000}

\* /etc/os-release: missing, without a codename line, and with the line for
\* noble, for jammy, and for noble in quotes.  A line is the pair of the texts
\* before and after its "=".
OsReleaseFiles ==
    { [exists |-> FALSE, lines |-> <<>>],
      [exists |-> TRUE, lines |-> << <<"NAME", "Ubuntu">> >>],
      [exists |-> TRUE, lines |-> << <<"NAME", "Ubuntu">>, <<"VERSION_CODENAME", "noble">> >>],
      [exists |-> TRUE, lines |-> << <<"NAME", "Ubuntu">>, <<"VERSION_CODENAME", "jammy">> >>],
      [exists |-> TRUE, lines |-> << <<"VERSION_CODENAME", "\"noble\"">>, <<"NAME", "Ubuntu">> >>] }

\* The for loop of get_os_codename over the lines of the file.
RECURSIVE CodenameIn(_)
CodenameIn(lines) ==
    IF lines = <<>> THEN "None"
    ELSE IF Head(lines)[1] = "VERSION_CODENAME" THEN Head(lines)[2]
    ELSE CodenameIn(Tail(lines))

\* get_os_codename(); "None" is Python's None.
GetOsCodename(file) == IF file.exists THEN CodenameIn(file.lines) ELSE "None"

\* str.lower() of one character of the answers.
LowerChar(c) ==
    CASE c = "Y" -> "y" [] c = "E" -> "e" [] c = "S" -> "s" [] c = "N" -> "n"
      [] c = "O" -> "o" [] OTHER -> c

\* str.lower()
Lower(t) == [k \in 1..Len(t) |-> LowerChar(t[k])]

\* What the user types at the prompt: yes, YES, Yes, no, NO, y, nothing, and yes
\* followed by a blank.
ConfirmTexts ==
    { <<"y", "e", "s">>, <<"Y", "E", "S">>, <<"Y", "e", "s">>, <<"n", "o">>,
      <<"N", "O">>, <<"y">>, <<>>, <<"y", "e", "s", " ">> }

Yes == <<"y", "e", "s">>

\* Mutant: the installer goes on whatever the answer.
Aborted_Never(confirm) == FALSE

\* confirm != "yes"
Aborted(confirm) == confirm # Yes

\* The commands main() runs after the pre-flight checks, in order.  check: a
\* failure of the command raises; after: a test after the command that ends
\* the run with sys.exit(1) (empty download, no key file, the repository file
\* cannot be written, no docker on the path).
DockerSteps ==
    << [cmd |-> "apt-get remove", check |-> FALSE, after |-> FALSE],
       [cmd |-> "apt-get autoremove", check |-> FALSE, after |-> FALSE],
       [cmd |-> "apt-get purge", check |-> FALSE, after |-> FALSE],
       [cmd |-> "apt-get update", check |-> TRUE, after |-> FALSE],
       [cmd |-> "apt-get install prerequisites", check |-> TRUE, after |-> FALSE],
       [cmd |-> "curl", check |-> TRUE, after |-> TRUE],
       [cmd |-> "gpg --dearmor", check |-> TRUE, after |-> TRUE],
       [cmd |-> "chmod", check |-> TRUE, after |-> FALSE],
       [cmd |-> "dpkg --print-architecture", check |-> TRUE, after |-> TRUE],
       [cmd |-> "apt-get update", check |-> TRUE, after |-> FALSE],
       [cmd |-> "apt-get install docker", check |-> TRUE, after |-> TRUE],
       [cmd |-> "docker --version", check |-> TRUE, after |-> FALSE],
       [cmd |-> "docker run hello-world", check |-> FALSE, after |-> FALSE],
       [cmd |-> "getent group docker", check |-> FALSE, after |-> FALSE],
       [cmd |-> "groupadd docker", check |-> FALSE, after |-> FALSE],
       [cmd |-> "usermod", check |-> FALSE, after |-> FALSE] >>

\* How a command can end: exit status 0, a failure, or exit status 0 and the
\* test after it fails.
StepOutcomes(st) == {"ok", "failed"} \cup (IF st.after THEN {"unusable"} ELSE {})

\* The command after command n: the group commands are run only with
\* SUDO_USER, and groupadd only when getent found no group.
StepAfter(n, outcome, sudo_user) ==
    IF DockerSteps[n].cmd = "docker run hello-world" /\ ~sudo_user
    THEN Len(DockerSteps) + 1
    ELSE IF DockerSteps[n].cmd = "getent group docker" /\ outcome = "ok"
    THEN n + 2
    ELSE n + 1

\* sys.exit(code), or the end of the process by an exception nobody catches.
DockerExit(d, code) == [d EXCEPT !.pc = "exited", !.status = code]

DockerInit ==
    /\ StartOfRun(0)
    /\ pc = "docker"
    /\ raw_output = <<>>
    /\ chan = ChanIdle
    /\ keystore = NoKeyStore
    /\ scan = NoScan
    /\ ssh_key = NoSshKey
    /\ inputs = NoInputs
    /\ \E euid \in Euids, file \in OsReleaseFiles, su \in BOOLEAN :
        docker = [NoDocker EXCEPT !.pc = "root_check", !.euid = euid,
                                  !.os_release = file, !.sudo_user = su]

DockerFrame == UNCHANGED <<mainVars, raw_output, chan, keystore, scan, ssh_key, inputs>>

\* if os.geteuid() != 0
RootCheck ==
    /\ docker.pc = "root_check"
    /\ docker' = IF docker.euid # 0 THEN DockerExit(docker, 1)
                 ELSE [docker EXCEPT !.pc = "codename_check"]
    /\ DockerFrame

\* current_codename = get_os_codename() and the comparison with the target.
CodenameCheck ==
    /\ docker.pc = "codename_check"
    /\ LET current_codename == GetOsCodename(docker.os_release)
       IN docker' = [docker EXCEPT
                       !.current_codename = current_codename,
                       !.asked = current_codename # TARGET_OS_CODENAME,
                       !.pc = IF current_codename # TARGET_OS_CODENAME
                              THEN "confirm" ELSE "install"]
    /\ DockerFrame

\* confirm = input(...).lower() and the test of the answer.
Confirm ==
    /\ docker.pc = "confirm"
    /\ \E text \in ConfirmTexts :
        LET confirm == Lower(text)
            d1 == [docker EXCEPT !.confirm = confirm]
        IN docker' = IF Aborted(confirm) THEN DockerExit(d1, 0)
                     ELSE [d1 EXCEPT !.pc = "install"]
    /\ DockerFrame

\* The input ends before a line is read: input() raises EOFError, which
\* nobody catches.
ConfirmEof ==
    /\ docker.pc = "confirm"
    /\ docker' = DockerExit(docker, 1)
    /\ DockerFrame

\* The next command of main().
RunDockerCommand ==
    /\ docker.pc = "install"
    /\ LET st == DockerSteps[docker.next]
           ran == [docker EXCEPT !.commands = Append(@, st.cmd)]
       IN \E outcome \in StepOutcomes(st) :
            LET n == StepAfter(docker.next, outcome, docker.sudo_user)
            IN docker' =
                 IF (outcome = "failed" /\ st.check) \/ outcome = "unusable"
                 THEN DockerExit(ran, 1)
                 ELSE IF n > Len(DockerSteps)
                 THEN [ran EXCEPT !.pc = "finished", !.status = 0]
                 ELSE [ran EXCEPT !.next = n]
    /\ DockerFrame

DockerNext ==
    \/ RootCheck
    \/ CodenameCheck
    \/ Confirm
    \/ ConfirmEof
    \/ RunDockerCommand

DockerSpec == DockerInit /\ [][DockerNext]_vars

(***************************************************************************)
(* generate_ssh_key on its own: call after call, as in one run of the      *)
(* installer after the other on the same machine.                          *)
(***************************************************************************)
\* Largest number of calls of generate_ssh_key.
MaxKeygenCalls == 4

\* The number of different key pairs ssh-keygen can come up with.
NumKeyPairs == 8

KeyPairs == 1..NumKeyPairs

\* What ssh-keygen can do: write a key pair, or exit non-zero (or not start),
\* which run_local_command raises.
KeygenOutcomes == {"ok", "failed"}

\* Mutant: ssh-keygen is run whether the file exists or not.
KeygenNeeded_Always(key) == TRUE

\* not os.path.exists(SSH_KEY_PATH)
KeygenNeeded(key) == key = 0

KeygenInit ==
    /\ StartOfRun(0)
    /\ pc = "keygen"
    /\ raw_output = <<>>
    /\ chan = ChanIdle
    /\ keystore = NoKeyStore
    /\ scan = NoScan
    /\ \E k \in {0} \cup KeyPairs : ssh_key = [NoSshKey EXCEPT !.key = k, !.before = k]
    /\ inputs = NoInputs
    /\ docker = NoDocker

\* One call of generate_ssh_key.
GenerateSshKey ==
    /\ ssh_key.calls < MaxKeygenCalls
    /\ \E outcome \in KeygenOutcomes, fresh \in KeyPairs :
        LET called == [ssh_key EXCEPT !.calls = @ + 1, !.before = ssh_key.key]
            returned(k) == IF ssh_key.first = 0 THEN k ELSE ssh_key.first
        IN ssh_key' =
             IF KeygenNeeded(ssh_key.key)
             THEN IF outcome = "ok"
                  THEN [called EXCEPT !.key = fresh, !.made = @ + 1,
                                      !.result = "generated", !.first = returned(fresh)]
                  ELSE [called EXCEPT !.result = "raised"]
             ELSE [called EXCEPT !.result = "exists", !.first = returned(ssh_key.key)]
    /\ UNCHANGED <<mainVars, raw_output, chan, keystore, scan, inputs, docker>>

KeygenSpec == KeygenInit /\ [][GenerateSshKey]_vars

(***************************************************************************)
(* copy_ssh_key_to_server on its own: call after call on one host, with    *)
(* the host's authorized_keys.                                             *)
(***************************************************************************)
\* Largest number of calls made on the host.
MaxKeyCalls == 3

\* The copies of the key the host may hold before the first call.
KeyCountsAtStart == {0, 1}

KeyDistInit ==
    /\ StartOfRun(0)
    /\ pc = "key_dist"
    /\ raw_output = <<>>
    /\ chan = ChanIdle
    /\ \E c \in KeyCountsAtStart :
          keystore = [NoKeyStore EXCEPT !.count = c, !.before = c]
    /\ SideIdle

\* One call of copy_ssh_key_to_server, from its first statement to its return
\* (or to the exception that leaves it).
KeyDistCall ==
    /\ keystore.calls < MaxKeyCalls
    /\ \E sshcopy \in SshCopyOutcomes, connect \in ConnectOutcomes,
          keyread \in BOOLEAN, failAt \in 0..Len(AppendCommands) :
        keystore' =
            [count |-> StoreAfter(keystore.count, sshcopy, connect, keyread, failAt),
             before |-> keystore.count,
             calls |-> keystore.calls + 1,
             checked |-> KeyChecked(sshcopy, connect, keyread),
             result |-> IF CopyKeyRaises(sshcopy) THEN "raised"
                        ELSE IF CopySshKeyToServer(sshcopy, connect, keyread,
                                                   KeyExists(keystore.count), failAt)
                             THEN "success"
                             ELSE "failure",
             sshcopy |-> sshcopy, connect |-> connect, keyread |-> keyread,
             failAt |-> failAt]
    /\ UNCHANGED <<mainVars, raw_output, chan, sideVars>>

KeyDistSpec == KeyDistInit /\ [][KeyDistCall]_vars

(***************************************************************************)
(* Properties.                                                             *)
(***************************************************************************)
\* The hosts of the plan.
PlanHosts == SeqToSet(all_server_ips)

\* The hosts on which operation op has been started.
Started(op) == {h \in Hosts : <<h, op>> \in attempted}

\* The control host has failed the SSH setup or its base configuration.
ControlFailedEarly == failureStage[Master] \in {"SshSetup", "Provisioning"}

\* C1: if the control host fails Phase SSH (key copy or login test) or any
\* provisioning stage, the join command is executed on no worker and the set of
\* joined workers is empty.
C1_NoJoinAfterControlFailure ==
    ControlFailedEarly => (successful_workers = <<>> /\ Started("join") = {})

\* C1 witness: the run has aborted on the control host's provisioning failure
\* although a worker finished its own base configuration.
C1_Witness ==
    /\ pc = "aborted"
    /\ failureStage[Master] = "Provisioning"
    /\ \E w \in PlanHosts : hostStage[w] = "Provisioned"

\* C2 (as claimed): once the control host has failed Phase SSH or Phase Provision,
\* no key copy, login test or provisioning step is executed on a worker host.
C2_NoWorkerStepAfterControlFailure ==
    [][ControlFailedEarly =>
         \A k \in 1..Len(lastCalls') :
            lastCalls'[k].host # Master =>
                lastCalls'[k].op \notin {"copy_ssh_key", "test", "provision"}]_vars

\* The init command ended in an exception other than a non-zero exit status.
InitRaisedOther == initOutcome \in {"auth", "ssh", "timeout", "other"}

\* Nothing of what follows the init command has been started.
NothingAfterInit ==
    Started("kubeconfig") = {} /\ Started("cni") = {} /\ Started("cni_debug") = {}
        /\ Started("join") = {}

\* C3 (as claimed): whenever the init command fails, a non-zero exit status
\* included, the run aborts with no join directive and nothing runs afterwards.
C3_AnyInitFailureAborts ==
    initOutcome \notin {"none", "ok"} =>
        (pc = "aborted" /\ join_command_full = None /\ join_command = None
            /\ NothingAfterInit)

\* C3 (amended): when the init command times out, cannot connect or raises any
\* exception other than a non-zero exit status, the run aborts with no join
\* directive, and no kubeconfig step, network-plugin step or join runs afterwards.
C3_InitExceptionAborts ==
    InitRaisedOther =>
        (pc = "aborted" /\ join_command_full = None /\ join_command = None
            /\ NothingAfterInit)

\* C3 witness: the init command timed out with a provisioned worker waiting.
C3_Witness ==
    /\ initOutcome = "timeout"
    /\ pc = "aborted"
    /\ worker_ips # <<>>

\* The parse of the init output found no join command.
ParseFoundNothing == initOutcome \in {"ok", "nonzero"} /\ join_command_full = None

\* A kubeconfig command failed.
KubeconfigFailed == run.name = "Setup Kubeconfig on Master" /\ run.failed # 0

\* C4: when the parse finds no join command, or a kubeconfig command fails, main()
\* gets no join command and aborts before the network plugin is applied and
\* before any worker join.
C4_NoDirectiveAborts ==
    (ParseFoundNothing \/ KubeconfigFailed) =>
        (pc = "aborted" /\ join_command = None /\ Started("cni") = {}
            /\ Started("join") = {})

\* C4 witness: a join command was parsed, then the second kubeconfig command
\* failed, with a provisioned worker waiting.
C4_Witness ==
    /\ KubeconfigFailed
    /\ run.failed = 2
    /\ join_command_full # None
    /\ worker_ips # <<>>

\* C5: every worker left after provisioning gets its join command whatever the
\* earlier joins did; it is listed in successful_workers exactly when its own
\* join command returned; a failed join neither aborts the run nor touches the
\* control host's status.
C5_JoinsIndependent ==
    /\ \A w \in Hosts : InList(w, successful_workers) <=> joinOutcome[w] = "ok"
    /\ pc = "done" /\ IsJoinCommand(join_command) =>
          SeqToSet(worker_ips) \subseteq Started("join")
    /\ (\E w \in Hosts : joinOutcome[w] \notin {"none", "ok"}) =>
          (pc \in {"join", "done"} /\ abortMessage = "none"
              /\ hostStage[Master] = "RoleCompleted" /\ failureStage[Master] = "None")

\* C5 witness: two workers, the first worker's join failed and the second joined.
C5_Witness ==
    /\ pc = "done"
    /\ worker_ips = <<1, 2>>
    /\ joinOutcome[1] = "nonzero"
    /\ successful_workers = <<2>>

\* main() has left the loop over current_all_server_ips.
ProvisionLoopOver ==
    \/ pc \in {"init", "kubeconfig", "cni", "cni_debug", "join", "done"}
    \/ pc = "aborted" /\ abortMessage \in
          {"Base configuration failed for all designated master nodes",
           "Failed to initialize master node or retrieve join command"}

\* C6: in a run that enters Phase Provision, every host that passed the SSH setup
\* has its base configuration started, whatever happened to the hosts before it,
\* and a step's failure adds to failed_nodes_prereqs only the host the step ran
\* on, leaving the reported stage of every other host as it was.
C6_ProvisionIndependent ==
    /\ [](ProvisionLoopOver =>
            SeqToSet(successful_ssh_setup_servers) \subseteq Started("provision"))
    /\ [][\A h \in Hosts :
            (InList(h, failed_nodes_prereqs') /\ ~InList(h, failed_nodes_prereqs)) =>
                /\ pc = "provision"
                /\ lastCalls'[1].host = h
                /\ failed_nodes_prereqs' = Append(failed_nodes_prereqs, h)
                /\ \A g \in Hosts \ {h} : hostStage'[g] = hostStage[g]]_vars

\* C6 witness: the first worker failed its base configuration and the second
\* worker, processed after it, completed its own.
C6_Witness ==
    /\ pc = "init"
    /\ failed_nodes_prereqs = <<1>>
    /\ hostStage[2] = "Provisioned"

\* C7: no remote command (key copy included) is executed on a host that has
\* failed the key copy, the login test, a provisioning step or its join.
C7_FailedHostLeftAlone ==
    [][\A k \in 1..Len(lastCalls') : hostStage[lastCalls'[k].host] # "Failed"]_vars

\* C7 witness: the run reached the report after one worker failed the SSH setup
\* and the other one its base configuration.
C7_Witness ==
    /\ pc = "done"
    /\ failureStage[1] = "SshSetup"
    /\ failureStage[2] = "Provisioning"

\* A failure stage is recorded for exactly the hosts whose stage is Failed.
FailureStageIffFailed ==
    \A h \in PlanHosts : failureStage[h] # "None" <=> hostStage[h] = "Failed"

\* Every host of the plan is in a terminal stage.
AllTerminal == \A h \in PlanHosts : hostStage[h] \in {"RoleCompleted", "Failed"}

\* C8 (as claimed): after any run, aborted or not, every host of the plan is in
\* a terminal stage, and a failure stage is recorded iff the stage is Failed.
C8_TerminalAfterAnyRun ==
    pc \in {"done", "aborted"} => (AllTerminal /\ FailureStageIffFailed)

\* C8 (amended): after any run that reaches the final report every host of the
\* plan is in a terminal stage; and at any time a failure stage is recorded for
\* a host iff its stage is Failed.
C8_TerminalAfterReport ==
    /\ FailureStageIffFailed
    /\ pc = "done" => AllTerminal

\* C8 witness: a report with one joined worker and one that failed provisioning.
C8_Witness ==
    /\ pc = "done"
    /\ hostStage[Master] = "RoleCompleted"
    /\ hostStage[1] = "RoleCompleted"
    /\ failureStage[2] = "Provisioning"

\* C9: execute_remote_commands runs the commands in list order and stops at the
\* first that raises: commands 1..k have run, each once and in order, none ran
\* after a failing one, the failure is reported with the 1-based index k, and
\* the exception reaches the caller, which gives up the node (or the run, for
\* the kubeconfig commands).
C9_RunnerStopsAtFirstFailure ==
    LET e == run.executed
        k == Len(e)
    IN /\ k <= run.n
       /\ \A j \in 1..k : e[j].i = j
       /\ \A j \in 1..(k - 1) : e[j].raised = "none"
       /\ IF k > 0 /\ e[k].raised # "none"
          THEN /\ run.failed = k
               /\ run.raise = e[k].raised
               /\ IF run.name = "Setup Kubeconfig on Master"
                  THEN pc = "aborted"
                  ELSE InList(run.host, failed_nodes_prereqs)
          ELSE run.failed = 0 /\ run.raise = "none"

\* C9 witness: a list of five commands whose third command exited non-zero.
C9_Witness ==
    /\ run.n = 5
    /\ run.failed = 3
    /\ Len(run.executed) = 3
    /\ run.raise = "CalledProcessError"

\* C10: when applying the network plugin fails in whatever way, the run does not
\* abort: it goes on to the join loop and can always take its next step until it
\* reaches the report, and when it reaches the report every worker left after
\* provisioning has had its join command.
C10_CniFailureNotFatal ==
    cniStatus = "failed" =>
        /\ pc \in {"cni_debug", "join", "done"}
        /\ abortMessage = "none"
        /\ pc # "done" => ENABLED Next
        /\ pc = "done" => SeqToSet(worker_ips) \subseteq Started("join")

\* C10 witness: the network plugin could not be applied and a worker joined.
C10_Witness ==
    /\ cniStatus = "failed"
    /\ pc = "done"
    /\ successful_workers # <<>>

\* The phase of main() an operation belongs to: 1 SSH setup, 2 base
\* configuration, 3 master initialisation, 4 network plugin, 5 worker joins.
PhaseOf(op) ==
    CASE op \in {"key", "copy_ssh_key", "test"} -> 1
      [] op = "provision" -> 2
      [] op \in {"init", "kubeconfig"} -> 3
      [] op \in {"cni", "cni_debug"} -> 4
      [] OTHER -> 5

\* C11: the phases are strictly ordered: no remote call belongs to an earlier
\* phase than anything started before it; a provisioning step runs only after
\* the key copy was attempted on every host of the plan; the init command only
\* after every host that passed the SSH setup had its provisioning started; the
\* network-plugin apply only after the init command and the kubeconfig setup
\* gave main() a join command; and a join only after the network-plugin apply,
\* with the join command initialize_master_node returned.
C11_PhasesOrdered ==
    [][\A k \in 1..Len(lastCalls') :
        LET c == lastCalls'[k]
        IN /\ \A a \in attempted : PhaseOf(a[2]) <= PhaseOf(c.op)
           /\ c.op = "provision" => Started("key") = PlanHosts
           /\ c.op = "init" =>
                 SeqToSet(successful_ssh_setup_servers) \subseteq Started("provision")
           /\ c.op = "kubeconfig" => Started("init") = {Master}
           /\ c.op = "cni" =>
                 /\ Started("kubeconfig") = {Master}
                 /\ hostStage[Master] = "RoleCompleted"
                 /\ join_command # None
           /\ c.op = "join" =>
                 /\ Started("cni") = {Master}
                 /\ hostStage[Master] = "RoleCompleted"
                 /\ IsJoinCommand(join_command)
                 /\ join_command = join_command_full]_vars

\* C11 witness: a run went through all five phases and joined both workers.
C11_Witness ==
    /\ pc = "done"
    /\ successful_workers = <<1, 2>>
    /\ cniStatus = "ok"

\* The workers that passed the SSH setup and the base configuration.
Survivors ==
    {h \in PlanHosts \ {Master} :
        InList(h, successful_ssh_setup_servers) /\ ~InList(h, failed_nodes_prereqs)}

\* The hosts the join command has been executed on.
JoinExecuted == {h \in Hosts : joinOutcome[h] # "none"}

\* C12: the join command is executed only on workers that passed the SSH setup
\* and the base configuration, never on the control host; and when main() got a
\* join command and reaches its report, it was executed on every such worker.
C12_JoinSetExact ==
    /\ JoinExecuted \subseteq Survivors
    /\ Started("join") \subseteq Survivors
    /\ (pc = "done" /\ join_command # None) => JoinExecuted = Survivors

\* C12 witness: of two workers the first failed its base configuration and the
\* join command ran on the second only.
C12_Witness ==
    /\ pc = "done"
    /\ failureStage[1] = "Provisioning"
    /\ joinOutcome[1] = "none"
    /\ joinOutcome[2] # "none"

\* C13: the join command is produced at most once and never changes afterwards:
\* once the init command has run the parse result stays what it is, main()'s
\* join_command stays what it is once set, and every join call executes exactly
\* the command initialize_master_node returned.
C13_DirectiveImmutable ==
    [][/\ initOutcome # "none" => join_command_full' = join_command_full
       /\ join_command # None => join_command' = join_command
       /\ join_command' # None => join_command' = join_command_full'
       /\ \A k \in 1..Len(lastCalls') :
             lastCalls'[k].op = "join" =>
                 /\ lastCalls'[k].cmd = join_command_full
                 /\ lastCalls'[k].cmd = join_command]_vars

\* C13 witness: both workers have had their join call, the second with the
\* command main() holds.
C13_Witness ==
    /\ pc = "done"
    /\ joinOutcome[1] # "none"
    /\ joinOutcome[2] # "none"
    /\ Len(lastCalls) = 1
    /\ lastCalls[1].host = 2
    /\ lastCalls[1].cmd = join_command

\* The parser has returned.
Parsed == pc = "parsed"

\* Lines a..t of the output are a well-formed join block: line a holds the join
\* keyword and line a+1 the token option, every line before line t ends with a
\* continuation marker, and line t holds the CA-cert-hash option.
WellFormedBlock(lines, a, t) ==
    /\ 1 <= a
    /\ a < t
    /\ t <= Len(lines)
    /\ HasJoin(lines[a])
    /\ HasToken(lines[a + 1])
    /\ \A k \in (a + 1)..(t - 1) : EndsWithBackslash(lines[k])
    /\ HasHash(lines[t])

\* The command made of lines a..t: each line without its continuation marker,
\* in order, joined by single spaces, "sudo" in front unless it is there
\* already, and "--v=5" at the end.
BlockCommand(lines, a, t) ==
    LET words == JoinWords([k \in 1..(t - a + 1) |-> ProcessedLine(lines[a + k - 1])])
    IN (IF StartsWithSudo(words) THEN words ELSE <<"sudo">> \o words) \o <<"--v=5">>

\* The output holds a well-formed block.
HasWellFormedBlock(lines) ==
    \E a \in 1..Len(lines), t \in 1..Len(lines) : WellFormedBlock(lines, a, t)

\* C14 (as claimed): for any output that holds a well-formed join block, the
\* parser returns the command made of exactly the lines of a well-formed block
\* of the output.
C14_WellFormedBlockReturned ==
    (Parsed /\ HasWellFormedBlock(raw_output)) =>
        \E a \in 1..Len(raw_output), t \in 1..Len(raw_output) :
            /\ WellFormedBlock(raw_output, a, t)
            /\ join_command_full = BlockCommand(raw_output, a, t)

\* No line of the output opens a join block.
NoAnchorLine(lines) ==
    \A i \in 1..(Len(lines) - 1) : ~(HasJoin(lines[i]) /\ HasToken(lines[i + 1]))

\* C15: for an output without an anchor line (no line with the join keyword whose
\* next line holds the token option), an output of one line or one whose last
\* line holds the join keyword included, the parser returns None.
C15_NoAnchorNoDirective ==
    (Parsed /\ NoAnchorLine(raw_output)) => join_command_full = None

\* C15 witness: the parser returned None for an output with the CA-cert-hash
\* option in it whose last line holds the join keyword.
C15_Witness ==
    /\ Parsed
    /\ raw_output = <<TextLine, HashLine, JoinLine>>
    /\ join_command_full = None

\* C16: a returned command holds the CA-cert-hash option; when the loop over the
\* lines ends with a buffer that has no line with that option, or the output has
\* no such line at all, the parser returns None.
C16_DirectiveOnlyWithHash ==
    Parsed =>
        /\ join_command_full # None => HasHash(join_command_full)
        /\ ~AnyHash(raw_output) => join_command_full = None
        /\ ~AnyHash(ParseLoop(raw_output, 1, <<>>, FALSE)) => join_command_full = None

\* C16 witness: a block was opened and accumulated to the end of the output
\* without the CA-cert-hash option, and the parser returned None.
C16_Witness ==
    /\ Parsed
    /\ raw_output = <<JoinLine, TokenLine, FlagLine>>
    /\ join_command_full = None

\* The call has ended.
ChanEnded == chan.pc \in {"returned", "raised"}

\* C17 (as claimed): a command that exits non-zero over a healthy transport makes
\* run_remote_command return normally, without raising.
C17_NonZeroExitReturned ==
    (ChanEnded /\ chan.exit > 0) => (chan.pc = "returned" /\ chan.raised = "none")

\* C17 (amended): run_remote_command returns (output, error_output) only when the
\* exit status is 0; a non-zero exit status is raised as CalledProcessError, which
\* carries the status, the output and the error output, and CalledProcessError
\* is raised for nothing else.
C17_NonZeroExitRaised ==
    /\ chan.pc = "returned" =>
          (chan.exit = 0 /\ chan.raised = "none"
              /\ chan.value = <<chan.stdout, chan.stderr>>)
    /\ (ChanEnded /\ chan.exit > 0) =>
          (chan.pc = "raised" /\ chan.raised = "CalledProcessError"
              /\ chan.value = None)
    /\ chan.raised = "CalledProcessError" =>
          (chan.exit > 0 /\ chan.at = "recv_exit" /\ chan.event = "nonzero")

\* C17 witness: a command wrote to stdout and exited with status 1.
C17_Witness ==
    /\ chan.pc = "raised"
    /\ chan.exit = 1
    /\ chan.stdout = <<TextLine>>
    /\ chan.raised = "CalledProcessError"

\* C18 (as claimed): a call that fails for anything but the command's exit status
\* raises ConnectionError (authentication, SSH protocol, name resolution, route)
\* or TimeoutError (no response in time), and nothing else.
C18_TransportFailuresTwoKinds ==
    (chan.pc = "raised" /\ chan.event # "nonzero") =>
        /\ chan.raised \in {"ConnectionError", "TimeoutError"}
        /\ chan.event \in {"auth", "ssh", "dns", "unreachable"} =>
              chan.raised = "ConnectionError"
        /\ chan.event = "timeout" => chan.raised = "TimeoutError"

\* C19: every call sets up its own connection, at most one, and on every way out
\* (return, non-zero exit, connection error, timeout, any other exception) the
\* connection is closed before the caller goes on: none is open between calls.
C19_SessionClosedBetweenCalls ==
    /\ chan.pc \in {"idle", "connect", "returned", "raised"} => ~chan.open
    /\ chan.pc \in {"session", "recv_stdout", "recv_stderr", "recv_exit"} =>
          (chan.open /\ chan.opened = 1)
    /\ chan.opened <= 1

\* C19 witness: a call timed out while reading stderr, and its connection is
\* closed.
C19_Witness ==
    /\ chan.pc = "raised"
    /\ chan.raised = "TimeoutError"
    /\ chan.at = "recv_stderr"
    /\ chan.opened = 1
    /\ ~chan.open

\* C20 (as claimed): when the remote side stalls while the call reads the output
\* or waits for the exit status, the call ends with TimeoutError.
C20_StallEndsInTimeout ==
    chan.stalled ~> (chan.pc = "raised" /\ chan.raised = "TimeoutError")

\* C21 (as claimed): every call of copy_ssh_key_to_server returns a boolean to
\* main(), whatever the ssh-copy-id attempt and the fallback met: no exception
\* leaves it, and main() goes on to the login test when it returned True and
\* skips the host when it returned False.
C21_KeyCopyReturnsBoolean ==
    [][\A k \in 1..Len(lastCalls') :
        lastCalls'[k].op = "copy_ssh_key" =>
            LET h == lastCalls'[k].host
            IN /\ abortMessage' # UnhandledError
               /\ hostStage'[h] \in {"KeyCopied", "Failed"}
               /\ hostStage'[h] = "KeyCopied" <=> pc' = "ssh_test"]_vars

PlanWorkers == PlanHosts \ {Master}

\* C23: a run in which every key copy, login test, provisioning step, the init
\* command, the kubeconfig steps and every join succeeded, and in which the
\* parser returned a join command, does not stop before its report (every step
\* on the way has a successor and no abort ends it), and the report lists every
\* worker of the plan as joined and no host as skipped for SSH, failed in the
\* base setup or failed to join.
C23_AllSucceedAllJoined ==
    (trouble = {} /\ (initOutcome # "none" => join_command_full # None)) =>
        /\ pc # "aborted"
        /\ pc # "done" => ENABLED Next
        /\ pc = "done" =>
              /\ JoinedWorkers = PlanWorkers
              /\ SkippedSshNodes = {}
              /\ PrereqFailedNodes = {}
              /\ FailedJoinWorkers = {}

\* C23 witness: the report of a run with two workers in which nothing failed.
C23_Witness ==
    /\ pc = "done"
    /\ trouble = {}
    /\ PlanWorkers = {1, 2}
    /\ successful_workers = <<1, 2>>
    /\ join_command_full # None

\* C24: at the report every worker of the plan is in exactly one of the four
\* lists (skipped for SSH, failed in the base setup, joined, failed to join),
\* and no host is in two of them.
C24_ReportPartitionsWorkers ==
    pc = "done" =>
        /\ PlanWorkers \subseteq
              (SkippedSshNodes \cup PrereqFailedNodes \cup JoinedWorkers
                   \cup FailedJoinWorkers)
        /\ SkippedSshNodes \cap PrereqFailedNodes = {}
        /\ SkippedSshNodes \cap JoinedWorkers = {}
        /\ SkippedSshNodes \cap FailedJoinWorkers = {}
        /\ PrereqFailedNodes \cap JoinedWorkers = {}
        /\ PrereqFailedNodes \cap FailedJoinWorkers = {}
        /\ JoinedWorkers \cap FailedJoinWorkers = {}

\* C24 witness: a report with one worker joined and the other failed to join.
C24_Witness ==
    /\ pc = "done"
    /\ JoinedWorkers = {1}
    /\ FailedJoinWorkers = {2}

\* The hosts a phase's loop runs over, and the stages in which a host is when
\* the loop is through with it.
LoopHosts(phase) ==
    CASE phase = 1 -> PlanHosts
      [] phase = 2 -> SeqToSet(successful_ssh_setup_servers)
      [] phase = 5 -> SeqToSet(worker_ips)
      [] OTHER -> {Master}

LoopDone(phase) ==
    CASE phase = 1 -> {"SshVerified", "Failed"}
      [] phase = 2 -> {"Provisioned", "Failed"}
      [] OTHER -> {"RoleCompleted", "Failed"}

\* C25: within a phase the hosts are worked on one at a time, in the order of
\* the plan (the control host, then the workers as entered): when a remote call
\* is made on a host, nothing of the same phase was ever started on a host
\* later in the plan, and every host of the phase's loop earlier in the plan
\* has been started and is through with the phase.
C25_PlanOrderWithinPhase ==
    [][\A k \in 1..Len(lastCalls') :
        LET c == lastCalls'[k]
            phase == PhaseOf(c.op)
        IN /\ \A a \in attempted : PhaseOf(a[2]) = phase => a[1] <= c.host
           /\ \A h \in LoopHosts(phase) :
                 h < c.host =>
                    /\ \E a \in attempted : a[1] = h /\ PhaseOf(a[2]) = phase
                    /\ hostStage[h] \in LoopDone(phase)]_vars

\* C25 witness: a provisioning step runs on the second worker after the master
\* and the first worker were provisioned.
C25_Witness ==
    /\ Len(lastCalls) > 0
    /\ lastCalls[1].op = "provision"
    /\ lastCalls[1].host = 2
    /\ hostStage[Master] = "Provisioned"
    /\ hostStage[1] = "Provisioned"

\* <<i, s, t>> comes before <<j, u, v>>: node by node, stage by stage, command
\* by command.
Before3(i, s, t, j, u, v) ==
    \/ i < j
    \/ i = j /\ s < u
    \/ i = j /\ s = u /\ t < v

C27_RunEndsWithMessageOrReport ==
    <>(pc = "done" \/ (pc = "aborted" /\ abortMessage # "none"))

\* The lines of the output that make up the returned command.
KeptLines == ParseKept(raw_output, 1, <<>>, FALSE)

\* C28 (as claimed): every line of a returned command but its first, the
\* anchor, either follows a line of the output that ends with a continuation
\* marker or starts with an option prefix.
C28_KeptLinesContinueOrOption ==
    (Parsed /\ join_command_full # None) =>
        \A k \in 2..Len(KeptLines) :
            LET i == KeptLines[k]
            IN EndsWithBackslash(raw_output[i - 1]) \/ StartsWithDashes(raw_output[i])

\* The lines of the output that were in a discarded buffer.
DiscardedLines == ParseDiscarded(raw_output, 1, <<>>, FALSE, {})

\* Lines a..t are a well-formed join block that begins after every discarded
\* line.
LaterBlock(a, t) ==
    /\ WellFormedBlock(raw_output, a, t)
    /\ \A d \in DiscardedLines : d < a

\* C29 (as claimed): when the parser has discarded a candidate and a well-formed
\* join block begins later in the output, the parser returns the command made
\* of exactly the lines of such a later block, and none of the lines it holds
\* is a line of a discarded candidate.
C29_LaterBlockReturnedExactly ==
    (/\ Parsed
     /\ DiscardedLines # {}
     /\ \E a \in 1..Len(raw_output), t \in 1..Len(raw_output) : LaterBlock(a, t)) =>
        /\ \E a \in 1..Len(raw_output), t \in 1..Len(raw_output) :
              /\ LaterBlock(a, t)
              /\ join_command_full = BlockCommand(raw_output, a, t)
        /\ SeqToSet(KeptLines) \cap DiscardedLines = {}

\* Every buffer the parser holds on the way, for every output the init command
\* can give it, begins with an anchor line: a line with the join keyword whose
\* next line holds the token option.
BuffersStartAtAnchor ==
    \A lines \in InitRawOutputs :
        \A b \in ParseBuffers(lines, 1, <<>>, FALSE, {}) :
            b # <<>> => (IsAnchor(lines, b[1]) /\ HasJoin(ProcessedLine(lines[b[1]])))

\* C30: the parser's buffer, when it is not empty, begins with an anchor line,
\* which holds the join keyword; every command initialize_master_node returns
\* holds the join keyword; and once main() is past initialize_master_node its
\* join command passes the "kubeadm join" tests of main() and of
\* join_worker_node, so that at the report the join command has been executed
\* on every worker left for the join.
C30_DirectiveHasJoinKeyword ==
    /\ BuffersStartAtAnchor
    /\ join_command_full # None => HasJoin(join_command_full)
    /\ join_command # None => join_command = join_command_full
    /\ pc \in {"cni", "cni_debug", "join", "done"} => IsJoinCommand(join_command)
    /\ pc = "done" => \A i \in 1..Len(worker_ips) : joinOutcome[worker_ips[i]] # "none"

\* C30 witness: main() is at the join of the second worker, with the command the
\* parser returned.
C30_Witness ==
    /\ pc = "join"
    /\ idx = 2
    /\ IsJoinCommand(join_command)
    /\ join_command = join_command_full

\* The loop has gone through the lines in order, each at most once, and each
\* iteration has read its own line and at most the next one.
VisitsForward ==
    /\ \A k \in 1..Len(scan.visits) : scan.visits[k] = k
    /\ Len(scan.visits) <= Len(raw_output)
    /\ \A k \in 1..Len(scan.looked) : scan.looked[k] \subseteq {k, k + 1}

\* C31: the parse of every output ends, whatever false anchors the output
\* holds, and on the way the loop takes the lines in order, each at most once,
\* reading at most one line ahead; the result is the one of ParseJoinCommand.
C31_SingleForwardPass ==
    /\ [](VisitsForward /\ (scan.pc = "returned" =>
                               scan.result = ParseJoinCommand(raw_output)))
    /\ <>(scan.pc = "returned")

\* C31 witness: the parse of an output with three false anchors has ended, after
\* three resets of the buffer.
C31_Witness ==
    /\ scan.pc = "returned"
    /\ raw_output = <<JoinLine, BareTokenLine, JoinLine, BareTokenLine, JoinLine,
                      BareTokenLine>>
    /\ scan.visits = <<1, 2, 3, 4, 5, 6>>
    /\ scan.result = None

\* C32: when the parse fails, every line of raw_output has been printed, in
\* order and with its number, by the time None is returned.
C32_FailureDumpsOutput ==
    (scan.pc = "returned" /\ scan.result = None) =>
        /\ Len(scan.log) = Len(raw_output)
        /\ \A k \in 1..Len(raw_output) :
              scan.log[k].num = k - 1 /\ scan.log[k].text = raw_output[k]

\* C32 witness: the parse of a three-line output with an anchor and no
\* CA-cert-hash option failed, and its three lines are in the log.
C32_Witness ==
    /\ scan.pc = "returned"
    /\ scan.result = None
    /\ raw_output = <<JoinLine, BareTokenLine, TextLine>>
    /\ Len(scan.log) = 3

\* Operation op was started on host h and succeeded.
Succeeded(h, op) == <<h, op>> \in attempted /\ <<h, op>> \notin trouble

\* C33: the login test is run on a host only after the key copy to that host
\* returned True; a host whose key copy failed gets no login test; a host is in
\* successful_ssh_setup_servers only when its key copy and its login test both
\* succeeded; and the hosts main() keeps after the SSH loop are among those.
C33_ProbeAfterKeyCopy ==
    /\ \A h \in Hosts : <<h, "test">> \in attempted => Succeeded(h, "key")
    /\ \A h \in Hosts : <<h, "key">> \in trouble => <<h, "test">> \notin attempted
    /\ \A h \in SeqToSet(successful_ssh_setup_servers) :
          Succeeded(h, "key") /\ Succeeded(h, "test")
    /\ pc \notin {"ssh_copy", "ssh_test", "aborted"} =>
          \A h \in SeqToSet(master_ips \o worker_ips) :
              Succeeded(h, "key") /\ Succeeded(h, "test")

\* C33 witness: the SSH loop is over; the first worker's key copy failed and it
\* got no login test, the second worker passed both and is kept.
C33_Witness ==
    /\ pc = "provision"
    /\ <<1, "key">> \in trouble
    /\ <<1, "test">> \notin attempted
    /\ Succeeded(2, "test")
    /\ worker_ips = <<2>>

\* The default of run_remote_command's timeout parameter, which is also what
\* execute_remote_commands gives a command that is no apt command.
DefaultTimeout == 300

\* The commands that install packages.
InstallCommands ==
    { "sudo apt-get install -y apt-transport-https ca-certificates curl gnupg lsb-release",
      "sudo apt-get install -y containerd.io",
      "sudo apt-get install -y kubelet kubeadm kubectl" }

\* C34: no command of the base configuration or of the kubeconfig setup runs
\* with a timeout below the default of 300 s; the commands that install
\* packages run with 600 s; the init command runs with 900 s and the join
\* command with 600 s, both above the default; the login test runs with 30 s,
\* below it.
C34_StepTimeouts ==
    \A k \in 1..Len(lastCalls) :
        LET c == lastCalls[k]
        IN /\ c.op \in {"provision", "kubeconfig"} => c.timeout >= DefaultTimeout
           /\ c.cmd \in InstallCommands => c.timeout = 600
           /\ c.op = "init" => (c.timeout = 900 /\ c.timeout > DefaultTimeout)
           /\ c.op = "join" => (c.timeout = 600 /\ c.timeout > DefaultTimeout)
           /\ c.op = "test" => (c.timeout = 30 /\ c.timeout < DefaultTimeout)

\* C34 witness: the installation of containerd.io, a command of a list given to
\* execute_remote_commands, runs with 600 s.
C34_Witness ==
    /\ Len(lastCalls) > 0
    /\ lastCalls[1].op = "provision"
    /\ lastCalls[1].cmd = "sudo apt-get install -y containerd.io"
    /\ lastCalls[1].timeout = 600

\* C35: ssh-keygen is run only by a call that finds no key file; a call that
\* finds the key pair leaves it as it is; over any number of calls the key pair
\* is written at most once; and after the first call that returned, the key
\* pair is the one that call left, whatever number of calls follow.
C35_KeyPairCreatedOnce ==
    /\ ssh_key.result = "generated" => (ssh_key.before = 0 /\ ssh_key.key # 0)
    /\ (ssh_key.calls > 0 /\ ssh_key.before # 0) =>
          (ssh_key.result = "exists" /\ ssh_key.key = ssh_key.before)
    /\ ssh_key.made <= 1
    /\ ssh_key.first # 0 => ssh_key.key = ssh_key.first

\* C35 witness: the first call generated the key pair, and the second and the
\* third call found it and left it alone.
C35_Witness ==
    /\ ssh_key.calls = 3
    /\ ssh_key.made = 1
    /\ ssh_key.result = "exists"
    /\ ssh_key.key = ssh_key.first
    /\ ssh_key.key = 5

\* C36: a run of get_user_inputs in which the same address was entered for
\* two hosts returns no plan, and a plan that is returned has one master and
\* addresses that differ pairwise.
C36_DuplicateAddressesFatal ==
    inputs.pc = "returned" =>
        /\ ~inputs.dup
        /\ Len(inputs.master_ips) = 1
        /\ \A k, m \in 1..Len(AllIps) :
              k # m => AddressOf(AllIps[k]) # AddressOf(AllIps[m])

\* The places of a text where the join keyword "kubeadm join" stands.
JoinKeywordAt(words) ==
    {i \in 1..(Len(words) - 1) : words[i] = "kubeadm" /\ words[i + 1] = "join"}

\* C37: the join command the parser returns holds the join keyword exactly once.
C37_OneJoinKeyword ==
    (Parsed /\ join_command_full # None) =>
        Cardinality(JoinKeywordAt(join_command_full)) = 1

\* C38: a call of run_remote_command makes a get_pty request only when its pty
\* argument is set, and a call whose pty argument is set and whose command has
\* been started has made the request.
C38_PtyIffAsked ==
    /\ chan.term # "none" => chan.pty
    /\ (chan.pty /\ chan.pc \in {"recv_stdout", "recv_stderr", "recv_exit", "returned"}) =>
          chan.term = "vt100"

\* C39: the Docker installer has run a command only if the effective user is
\* root and the codename is the target or the user answered yes; started by
\* another user it exits with status 1, and with another codename and an
\* answer that is not yes it exits with status 0, with no command run.
C39_NoCommandBeforePreflight ==
    /\ docker.commands # <<>> =>
          /\ docker.euid = 0
          /\ docker.current_codename = TARGET_OS_CODENAME \/ docker.confirm = Yes
    /\ (docker.euid # 0 /\ docker.pc # "root_check") =>
          (docker.pc = "exited" /\ docker.status = 1 /\ docker.commands = <<>>)
    /\ (docker.asked /\ docker.confirm # <<"unset">> /\ docker.confirm # Yes) =>
          (docker.pc = "exited" /\ docker.status = 0 /\ docker.commands = <<>>)

\* C39 witness: root on jammy answers no, and the installer has exited with
\* status 0 without running a command.
C39_Witness ==
    /\ docker.euid = 0
    /\ docker.current_codename = "jammy"
    /\ docker.confirm = <<"n", "o">>
    /\ docker.pc = "exited"
    /\ docker.status = 0
    /\ docker.commands = <<>>
====
